---- MODULE Spec2Model ----
(***************************************************************************)
(* Desktop Download Manager of home_media_server (the download manager     *)
(* service and the downloads table of the ledger database)                 *)
(* as a state machine: the persisted ledger, the admission queue, the      *)
(* concurrency counter, the active-transfer table, the pending transfers   *)
(* (promises of downloadFile with their request and write stream) and the  *)
(* files they write.  The main process is single threaded: every handler   *)
(* (IPC call, stream event with the promise continuation it triggers) is   *)
(* one atomic action.                                                      *)
(***************************************************************************)
EXTENDS Integers, Sequences, FiniteSets, TLC

\* ---------------------------------------------------------------- bounds
\* Spec: files offered by the source peer (each a (fileId, sourceDeviceId) pair),
\* their size in bytes (a 'data' chunk carries one byte), download records ever
\* created (crypto.randomUUID() never repeats), transfers ever started
NumFiles == 1
FileSize == 1
MaxDownloads == 2
MaxStarted == 3
\* how far below zero the counter activeDownloads is followed
MaxDrift == 1
\* SpecCap: the same, with more downloads than the concurrency cap
CapFiles == 4
CapFileSize == 1
CapDownloads == 4
CapStarted == 5
\* SpecResume: one download of a file of several chunks
ResFiles == 1
ResFileSize == 2
ResDownloads == 1
ResStarted == 3

\* SpecDeclared: one download whose size the caller declares
DeclFiles == 1
DeclFileSize == 2
DeclDownloads == 1
DeclStarted == 2
\* SpecNotify: downloads of one file with the main window alive
NotFiles == 1
NotFileSize == 1
NotDownloads == 2
NotStarted == 2
NotEvents == 6
\* SpecExpiry: downloads that complete and expire while the clock runs
ExpFiles == 2
ExpFileSize == 1
ExpDownloads == 2
ExpStarted == 2
ExpMaxTime == 5
\* SpecEngine: the files of the peer's folder, the downloads, the calls of
\* setPlayingFile that wait for the peer and the batches
EngFiles == 3
EngFileSize == 0
EngDownloads == 3
EngStarted == 3
EngFetching == 1
EngBatches == 2
\* SpecEpisodes: the entries of the folder the detector is called with
MaxSiblings == 4

\* ---------------------------------------------------- program constants
MAX_CONCURRENT_DOWNLOADS == 3

Max(a, b) == IF a > b THEN a ELSE b

\* NULL of the error column / absent local_path / absent file
NoError == ""
NoPath == 0
NoFile == <<-1>>

\* NULL of expires_at, and "no row" of a setting
NoExpiry == << >>
NoSetting == << >>

\* null of currentlyPlaying
NoFileId == 0

\* no call of setPlayingFile yet, no call of the episode detector yet
NoPlay == [fileId |-> NoFileId, result |-> "none", logged |-> FALSE]

NoCall ==
  [allFiles |-> << >>, infoOf |-> << >>, showKeyOf |-> << >>,
   call |-> "none", currentFile |-> << >>, count |-> 0, result |-> << >>]

\* the clock ticks TicksPerDay times a day
TicksPerDay == 2

Day(t) == t \div TicksPerDay

TimeOfDay(t) == t % TicksPerDay

\* Date.prototype.toISOString: "YYYY-MM-DDTHH:MM:SS.sssZ" as date, separator, time
toISOString(t) == <<Day(t), "T", TimeOfDay(t)>>

\* SQLite datetime('now'): "YYYY-MM-DD HH:MM:SS" as date, separator, time
datetime(t) == <<Day(t), " ", TimeOfDay(t)>>

\* code point of a separator character
CharCode(c) == IF c = " " THEN 32 ELSE 84

\* a < b for two TEXT values of SQLite (binary collation), the dates and times
\* being digit strings of fixed width
TextLess(a, b) ==
  \/ a[1] < b[1]
  \/ a[1] = b[1] /\ CharCode(a[2]) < CharCode(b[2])
  \/ a[1] = b[1] /\ a[2] = b[2] /\ a[3] < b[3]

\* the instant a timestamp text denotes
InstantOf(text) == text[1] * TicksPerDay + text[3]

\* getSetting<number>('autoDeleteDays') || 10
DEFAULT_AUTO_DELETE_DAYS == 10

autoDeleteDays(setting) ==
  IF setting = NoSetting \/ setting[1] = 0 THEN DEFAULT_AUTO_DELETE_DAYS
  ELSE setting[1]

\* the expiry with the default retention whatever the setting
expiresAtOf_Default(t, setting) ==
  toISOString(t + DEFAULT_AUTO_DELETE_DAYS * TicksPerDay)

\* new Date(); setDate(getDate() + autoDeleteDays); toISOString()
expiresAtOf(t, setting) == toISOString(t + autoDeleteDays(setting) * TicksPerDay)

\* the settings a fresh database holds
defaultSettings == [autoDownloadEnabled |-> TRUE, autoDeleteDays |-> <<10>>]

\* fileName of an offered file: the temp path is <downloadPath>/<fileName>.download
NameOf(f) == f

\* content of a source file of the given size at the peer: byte i holds the value i
SourceBytes(size) == [i \in 1..size |-> i - 1]

VARIABLES
  downloads,              \* ledger table "downloads": id -> row
  downloadQueue,          \* let downloadQueue: string[]
  activeDownloads,        \* let activeDownloads = 0
  downloadConnectionInfo, \* Map id -> {ip, port}: its key set
  transfers,              \* bag of pending downloadFile calls (request, write
                          \* stream, promise); reg marks the one activeStreams holds
  tempFile,               \* <name>.download on disk: name -> bytes or NoFile
  finalFile,              \* <name> on disk: name -> bytes or NoFile
  nextId,                 \* next fresh download id
  started,                \* calls of downloadFile so far
  sent,                   \* what mainWindow.webContents.send has sent to the
                          \* renderer so far: <<event, id>> in order
  proc,                   \* "running" | "quitting" | "crashed"
  scope,                  \* what the environment offers: files, their size,
                          \* whether the main window is alive, the
                          \* advertisements whose life is followed, and the
                          \* bounds of the exploration (never changes)
  recovering,             \* the last start: id read as 'downloading' -> its
                          \* status when initDownloadManager pushed it
  now,                    \* wall clock, in ticks since day 0
  settings,               \* table "settings": autoDownloadEnabled, autoDeleteDays
  currentlyPlaying,       \* let currentlyPlaying: the trigger's fileId, or none
  autoDownloadQueue,      \* let autoDownloadQueue: AutoDownloadItem[]
  fetching,               \* calls of setPlayingFile that await fetchFileSiblings:
                          \* bag of their fileIds
  played,                 \* how the last call of setPlayingFile returned or settled
  detector,               \* the last call of the episode detector: the folder's
                          \* entries, the arguments and the result
  discoveredDevices,      \* desktop: const discoveredDevices: Map id -> device
  devices,                \* mobile: useDevicesStore.devices: Device[]
  processedServices,      \* mobile: const processedServices = new Set<string>()
  polling,                \* mobile: the names whose 'found' interval is running
  network,                \* the names heard on the network, each with what
                          \* decodeServiceName and the name test make of it
                          \* (never changes)
  announced,              \* desktop: the advertisements the browser follows
                          \* (scope.followed) that it has reported 'up' and
                          \* not yet 'down'
  mdnsLog,                \* the last event of a discovery service and what its
                          \* handler logged
  decoded,                \* the last call of decodeServiceName and its result
  served,                 \* the last request to the Serving API and its reply
  shared_folders,         \* table "shared_folders": the rows getSharedFolders
                          \* returns
  fileCache               \* const fileCache: Map fileId -> file (its size)

vars == <<downloads, downloadQueue, activeDownloads, downloadConnectionInfo,
          transfers, tempFile, finalFile, nextId, started, sent, proc, scope,
          recovering, now, settings, currentlyPlaying, autoDownloadQueue,
          fetching, played, detector, discoveredDevices, devices,
          processedServices, polling, network, announced, mdnsLog, decoded,
          served, shared_folders, fileCache>>

\* the state of the discovery services and of the Serving API
discoveryVars ==
  <<discoveredDevices, devices, processedServices, polling, network, announced,
    mdnsLog>>

\* what the Serving API serves: the shared folders and the files scanned
shareVars == <<shared_folders, fileCache>>

serviceVars == <<discoveryVars, decoded, served, shareVars>>

\* the state of the Auto-Download Engine
engineVars == <<currentlyPlaying, autoDownloadQueue, fetching, played>>

managerVars == <<downloads, downloadQueue, activeDownloads,
                 downloadConnectionInfo, transfers, tempFile, finalFile, nextId,
                 started, sent>>

\* the state of the download manager, the engine and the detector
downloadVars == <<managerVars, proc, scope, recovering, now, settings, engineVars,
                  detector>>

\* ------------------------------------------------------------- helpers
Range(s) == {s[i] : i \in DOMAIN s}

\* Map.delete / DELETE FROM: drop a key from a function
Without(f, k) == [x \in (DOMAIN f) \ {k} |-> f[x]]

\* Map.set / INSERT
With(f, k, v) == [x \in (DOMAIN f) \cup {k} |-> IF x = k THEN v ELSE f[x]]

Exists(file) == file # NoFile

BagAdd(B, x) == IF x \in DOMAIN B THEN [B EXCEPT ![x] = B[x] + 1] ELSE With(B, x, 1)

BagDel(B, x) == IF B[x] = 1 THEN Without(B, x) ELSE [B EXCEPT ![x] = B[x] - 1]

RECURSIVE BagSize(_)
BagSize(B) ==
  IF DOMAIN B = {} THEN 0
  ELSE LET x == CHOOSE y \in DOMAIN B : TRUE IN B[x] + BagSize(Without(B, x))

\* the bag of F(x) for x in B
BagImage(B, F(_)) ==
  [y \in {F(x) : x \in DOMAIN B} |->
     BagSize([x \in {z \in DOMAIN B : F(z) = y} |-> B[x]])]

BagSelect(B, P(_)) == [x \in {z \in DOMAIN B : P(z)} |-> B[x]]

\* ------------------------------------------- shared/services/episodeDetector.ts
\* A string is the sequence of its characters.
Lower == <<"a", "b", "c", "d", "e", "f", "g", "h", "i", "j", "k", "l", "m", "n", "o", "p", "q", "r", "s", "t", "u", "v", "w", "x", "y", "z">>

Upper == <<"A", "B", "C", "D", "E", "F", "G", "H", "I", "J", "K", "L", "M", "N", "O", "P", "Q", "R", "S", "T", "U", "V", "W", "X", "Y", "Z">>

Digits == <<"0", "1", "2", "3", "4", "5", "6", "7", "8", "9">>

\* \d, \s and [\s._-] over the characters a name is made of
Digit == Range(Digits)

Space == {" "}

Separator == Space \cup {".", "_", "-"}

\* no upper limit of a repetition (* and +)
Unbounded == -1

\* one element of a regular expression: a character class (negated or not)
\* repeated min..max times, greedy, captured or not; or the anchor $
Cls(set, min, max) ==
  [cls |-> set, neg |-> FALSE, min |-> min, max |-> max, cap |-> FALSE, eos |-> FALSE]

Not(set, min, max) == [Cls(set, min, max) EXCEPT !.neg = TRUE]

Cap(set, min, max) == [Cls(set, min, max) EXCEPT !.cap = TRUE]

Lit(c) == Cls({c}, 1, 1)

Eos == [Cls({}, 0, 0) EXCEPT !.eos = TRUE]

String_toUpperCase_char(c) ==
  IF \E i \in 1..Len(Lower) : Lower[i] = c
  THEN Upper[CHOOSE i \in 1..Len(Lower) : Lower[i] = c]
  ELSE c

String_toLowerCase_char(c) ==
  IF \E i \in 1..Len(Upper) : Upper[i] = c
  THEN Lower[CHOOSE i \in 1..Len(Upper) : Upper[i] = c]
  ELSE c

toLowerCase(s) == [i \in 1..Len(s) |-> String_toLowerCase_char(s[i])]

\* a word under the flag i: each letter in either case
AnyCase(word) ==
  [i \in 1..Len(word) |-> Cls({word[i], String_toUpperCase_char(word[i])}, 1, 1)]

\* the result of a failed match
NoMatch == [ok |-> FALSE]

\* the elements from position i on, by backtracking: each element takes as
\* many characters as it can and gives back one at a time while the rest fails
RECURSIVE matchItems(_, _, _), tryCount(_, _, _, _)
matchItems(s, i, items) ==
  IF items = << >>
  THEN [ok |-> TRUE, end |-> i, caps |-> << >>]
  ELSE LET it == Head(items)
           room == Len(s) - i + 1
           most == IF it.max = Unbounded \/ it.max > room THEN room ELSE it.max
       IN tryCount(s, i, items, most)

tryCount(s, i, items, k) ==
  LET it == Head(items)
  IN IF k < it.min
     THEN NoMatch
     ELSE IF /\ \A j \in i..(i + k - 1) : (s[j] \in it.cls) # it.neg
             /\ it.eos => i = Len(s) + 1
          THEN LET rest == matchItems(s, i + k, Tail(items))
               IN IF rest.ok
                  THEN [ok |-> TRUE, end |-> rest.end,
                        caps |-> IF it.cap
                                 THEN <<SubSeq(s, i, i + k - 1)>> \o rest.caps
                                 ELSE rest.caps]
                  ELSE tryCount(s, i, items, k - 1)
          ELSE tryCount(s, i, items, k - 1)

\* a regular expression is a sequence of alternatives, tried in order at a position
RECURSIVE firstAlternative(_, _, _)
firstAlternative(s, i, alternatives) ==
  IF alternatives = << >>
  THEN NoMatch
  ELSE LET r == matchItems(s, i, Head(alternatives))
       IN IF r.ok THEN r ELSE firstAlternative(s, i, Tail(alternatives))

\* the leftmost match at or after position i
RECURSIVE matchFrom(_, _, _)
matchFrom(s, i, regex) ==
  IF i > Len(s) + 1
  THEN NoMatch
  ELSE LET r == firstAlternative(s, i, regex)
       IN IF r.ok
          THEN [ok |-> TRUE, index |-> i, end |-> r.end, caps |-> r.caps]
          ELSE matchFrom(s, i + 1, regex)

\* String.prototype.match with a regular expression without the flag g
match(s, regex) == matchFrom(s, 1, regex)

\* String.prototype.replace with a regular expression with the flag g, none of
\* which matches the empty string
RECURSIVE replaceFrom(_, _, _, _)
replaceFrom(s, i, regex, by) ==
  LET r == matchFrom(s, i, regex)
  IN IF i > Len(s) \/ ~r.ok
     THEN SubSeq(s, i, Len(s))
     ELSE SubSeq(s, i, r.index - 1) \o by \o replaceFrom(s, r.end, regex, by)

replaceAll(s, regex, by) == replaceFrom(s, 1, regex, by)

\* String.prototype.replace with a regular expression without the flag g
replaceFirst(s, regex, by) ==
  LET r == match(s, regex)
  IN IF r.ok
     THEN SubSeq(s, 1, r.index - 1) \o by \o SubSeq(s, r.end, Len(s))
     ELSE s

RECURSIVE trimStart(_)
trimStart(s) ==
  IF s # << >> /\ Head(s) \in Space THEN trimStart(Tail(s)) ELSE s

RECURSIVE trimEnd(_)
trimEnd(s) ==
  IF s # << >> /\ s[Len(s)] \in Space THEN trimEnd(SubSeq(s, 1, Len(s) - 1)) ELSE s

trim(s) == trimEnd(trimStart(s))

\* parseInt(text, 10) of a run of digits
RECURSIVE parseInt(_)
parseInt(text) ==
  IF text = << >>
  THEN 0
  ELSE 10 * parseInt(SubSeq(text, 1, Len(text) - 1))
       + (CHOOSE i \in 1..Len(Digits) : Digits[i] = text[Len(text)]) - 1

\* /[Ss](\d{1,2})[Ee](\d{1,3})/
SxxEyy ==
  << <<Cls({"S", "s"}, 1, 1), Cap(Digit, 1, 2), Cls({"E", "e"}, 1, 1), Cap(Digit, 1, 3)>> >>

\* /(\d{1,2})x(\d{2,3})/
NxNN == << <<Cap(Digit, 1, 2), Lit("x"), Cap(Digit, 2, 3)>> >>

\* /[Ss]eason[\s._-]*(\d{1,2})[\s._-]*[Ee]pisode[\s._-]*(\d{1,3})/i
SeasonEpisode ==
  << AnyCase(<<"s", "e", "a", "s", "o", "n">>)
     \o <<Cls(Separator, 0, Unbounded), Cap(Digit, 1, 2), Cls(Separator, 0, Unbounded)>>
     \o AnyCase(<<"e", "p", "i", "s", "o", "d", "e">>)
     \o <<Cls(Separator, 0, Unbounded), Cap(Digit, 1, 3)>> >>

\* /[Ss](\d{1,2})\.?[Ee](\d{1,3})/
SxxDotEyy ==
  << <<Cls({"S", "s"}, 1, 1), Cap(Digit, 1, 2), Cls({"."}, 0, 1),
       Cls({"E", "e"}, 1, 1), Cap(Digit, 1, 3)>> >>

EPISODE_PATTERNS == <<SxxEyy, NxNN, SeasonEpisode, SxxDotEyy>>

\* /[Ee]p(?:isode)?[\s._-]*(\d{1,3})/ : the optional group taken, else left out
EpN ==
  << <<Cls({"E", "e"}, 1, 1), Lit("p"), Lit("i"), Lit("s"), Lit("o"), Lit("d"), Lit("e"),
       Cls(Separator, 0, Unbounded), Cap(Digit, 1, 3)>>,
     <<Cls({"E", "e"}, 1, 1), Lit("p"), Cls(Separator, 0, Unbounded), Cap(Digit, 1, 3)>> >>

\* /[Pp]art[\s._-]*(\d{1,3})/
PartN ==
  << <<Cls({"P", "p"}, 1, 1), Lit("a"), Lit("r"), Lit("t"),
       Cls(Separator, 0, Unbounded), Cap(Digit, 1, 3)>> >>

\* /[\s._-]+(\d{2,3})(?:[\s._-]|$)/ : the digits end at a separator, else at
\* the end of the name (a shorter run of digits is followed by a digit, so
\* trying the first ending for every run before the second changes no result)
DashNN ==
  << <<Cls(Separator, 1, Unbounded), Cap(Digit, 2, 3), Cls(Separator, 1, 1)>>,
     <<Cls(Separator, 1, Unbounded), Cap(Digit, 2, 3), Eos>> >>

STANDALONE_EPISODE_PATTERNS == <<EpN, PartN, DashNN>>

\* cleanShowName: separators to spaces, spaces collapsed, years removed,
\* trimmed, lower case
cleanShowName(name) ==
  LET a == replaceAll(name, << <<Cls({".", "_", "-"}, 1, Unbounded)>> >>, <<" ">>)
      b == replaceAll(a, << <<Cls(Space, 1, Unbounded)>> >>, <<" ">>)
      c == replaceAll(b, << <<Lit("("), Cls(Digit, 4, 4), Lit(")")>> >>, << >>)
      d == replaceAll(c, << <<Lit("["), Cls(Digit, 4, 4), Lit("]")>> >>, << >>)
  IN toLowerCase(trim(d))

\* normalizeShowName: the show key
normalizeShowName(name) ==
  replaceAll(cleanShowName(name), << <<Not(Range(Lower) \cup Digit, 1, 1)>> >>, << >>)

\* the first pattern of the list that matches, with its position in the list
RECURSIVE firstPattern(_, _, _)
firstPattern(s, patterns, n) ==
  IF n > Len(patterns)
  THEN NoMatch
  ELSE LET r == match(s, patterns[n])
       IN IF r.ok THEN r ELSE firstPattern(s, patterns, n + 1)

\* null of parseEpisodeInfo; a result is <<info>>
NoInfo == << >>

parseEpisodeInfo(filename) ==
  LET nameWithoutExt ==
        replaceFirst(filename, << <<Lit("."), Not({"/", "."}, 1, Unbounded), Eos>> >>, << >>)
      main == firstPattern(nameWithoutExt, EPISODE_PATTERNS, 1)
      alone == firstPattern(nameWithoutExt, STANDALONE_EPISODE_PATTERNS, 1)
  IN IF main.ok
     THEN <<[showName |-> cleanShowName(SubSeq(nameWithoutExt, 1, main.index - 1)),
             season |-> parseInt(main.caps[1]),
             episode |-> parseInt(main.caps[2])]>>
     ELSE IF alone.ok
     THEN <<[showName |-> cleanShowName(SubSeq(nameWithoutExt, 1, alone.index - 1)),
             season |-> 1,
             episode |-> parseInt(alone.caps[1])]>>
     ELSE NoInfo

\* the order of the characters of a name under String.prototype.localeCompare
Collation ==
  <<" ", "_", "-", ".", "(", ")", "[", "]">> \o Digits \o Lower

RECURSIVE localeCompare(_, _)
localeCompare(a, b) ==
  LET rank(c) == CHOOSE i \in 1..Len(Collation) : Collation[i] = c
  IN IF a = << >> /\ b = << >> THEN 0
     ELSE IF a = << >> THEN -1
     ELSE IF b = << >> THEN 1
     ELSE IF rank(Head(a)) < rank(Head(b)) THEN -1
     ELSE IF rank(Head(a)) > rank(Head(b)) THEN 1
     ELSE localeCompare(Tail(a), Tail(b))

\* the entries a peer's folder can hold: id, name, type of a MediaFile
Catalogue ==
  <<[id |-> 1, type |-> "file",
     name |-> <<"S", "h", "o", "w", ".", "S", "0", "1", "E", "0", "1", ".", "m", "p", "4">>],
    [id |-> 2, type |-> "file",
     name |-> <<"S", "h", "o", "w", ".", "S", "0", "1", "E", "0", "2", ".", "m", "p", "4">>],
    [id |-> 3, type |-> "file",
     name |-> <<"s", "h", "o", "w", " ", "-", " ", "1", "x", "0", "3", ".", "m", "k", "v">>],
    [id |-> 4, type |-> "file",
     name |-> <<"O", "t", "h", "e", "r", ".", "S", "0", "1", "E", "0", "2", ".", "m", "p", "4">>],
    [id |-> 5, type |-> "file",
     name |-> <<"Z", "e", "d", ".", "m", "p", "4">>],
    [id |-> 6, type |-> "folder",
     name |-> <<"S", "h", "o", "w", " ", "S", "0", "1", "E", "0", "4">>],
    [id |-> 7, type |-> "file",
     name |-> <<"A", "l", "p", "h", "a", " ", "P", "a", "r", "t", " ", "2", ".", "a", "v", "i">>]>>

CatalogueNames == {Catalogue[i].name : i \in 1..Len(Catalogue)}

\* parseEpisodeInfo(name) and normalizeShowName(info.showName) of each name of
\* the folder at hand, computed when the folder is read
EpisodeInfoOf == detector.infoOf

ShowKeyOf == detector.showKeyOf

\* a.name.toLowerCase().localeCompare(b.name.toLowerCase()) of each two names
\* of the catalogue, computed once
CompareNames ==
  [a \in CatalogueNames, b \in CatalogueNames |->
     localeCompare(toLowerCase(a), toLowerCase(b))]

\* Array.prototype.sort with a comparator, which is stable: an element comes
\* behind those before it in the order and behind its equals that precede it
sort(list, Before(_, _)) ==
  LET ahead(i) == {j \in 1..Len(list) :
                     \/ Before(list[j], list[i])
                     \/ ~Before(list[i], list[j]) /\ j < i}
      place == [i \in 1..Len(list) |-> Cardinality(ahead(i)) + 1]
  IN [k \in 1..Len(list) |-> list[CHOOSE i \in 1..Len(list) : place[i] = k]]

\* Array.prototype.slice(from, to) with 0-based bounds
slice(list, from, to) ==
  SubSeq(list, from + 1, IF to < Len(list) THEN to ELSE Len(list))

\* the next episodes without looking at the show
findNextEpisodes_AnyShow(currentFile, allFiles, count) ==
  LET currentInfo == EpisodeInfoOf[currentFile.name]
      parsedFiles ==
        SelectSeq(allFiles,
                  LAMBDA f : /\ f.type = "file" /\ f.id # currentFile.id
                             /\ EpisodeInfoOf[f.name] # NoInfo)
      After(f) ==
        LET info == EpisodeInfoOf[f.name][1]
        IN \/ info.season = currentInfo[1].season /\ info.episode > currentInfo[1].episode
           \/ info.season > currentInfo[1].season
      Before(a, b) ==
        LET x == EpisodeInfoOf[a.name][1]
            y == EpisodeInfoOf[b.name][1]
        IN IF x.season # y.season THEN x.season < y.season ELSE x.episode < y.episode
  IN IF currentInfo = NoInfo
     THEN << >>
     ELSE slice(sort(SelectSeq(parsedFiles, After), Before), 0, count)

findNextEpisodes(currentFile, allFiles, count) ==
  LET currentInfo == EpisodeInfoOf[currentFile.name]
      normalizedCurrentShow == ShowKeyOf[currentFile.name]
      parsedFiles ==
        SelectSeq(allFiles,
                  LAMBDA f : /\ f.type = "file" /\ f.id # currentFile.id
                             /\ EpisodeInfoOf[f.name] # NoInfo
                             /\ ShowKeyOf[f.name] = normalizedCurrentShow)
      After(f) ==
        LET info == EpisodeInfoOf[f.name][1]
        IN \/ info.season = currentInfo[1].season /\ info.episode > currentInfo[1].episode
           \/ info.season > currentInfo[1].season
      Before(a, b) ==
        LET x == EpisodeInfoOf[a.name][1]
            y == EpisodeInfoOf[b.name][1]
        IN IF x.season # y.season THEN x.season < y.season ELSE x.episode < y.episode
  IN IF currentInfo = NoInfo
     THEN << >>
     ELSE slice(sort(SelectSeq(parsedFiles, After), Before), 0, count)

indexOfFile(list, id) ==
  IF \E i \in 1..Len(list) : list[i].id = id
  THEN (CHOOSE i \in 1..Len(list) :
          list[i].id = id /\ \A j \in 1..(i - 1) : list[j].id # id) - 1
  ELSE -1

getNextAlphabetically(currentFile, allFiles, count) ==
  LET files == SelectSeq(allFiles, LAMBDA f : f.type = "file")
      sorted == sort(files, LAMBDA a, b : CompareNames[a.name, b.name] < 0)
      currentIndex == indexOfFile(sorted, currentFile.id)
  IN IF currentIndex = -1
     THEN << >>
     ELSE slice(sorted, currentIndex + 1, currentIndex + 1 + count)

findFilesToAutoDownload(currentFile, allFiles) ==
  LET episodeFiles == findNextEpisodes(currentFile, allFiles, 2)
      alphabeticalFiles == getNextAlphabetically(currentFile, allFiles, 2)
      filesToDownload ==
        <<currentFile>> \o (IF Len(episodeFiles) > 0 THEN episodeFiles
                            ELSE alphabeticalFiles)
      additional == getNextAlphabetically(currentFile, allFiles, 1)
      fresh == SelectSeq(additional,
                         LAMBDA file : \A i \in 1..Len(filesToDownload) :
                                         filesToDownload[i].id # file.id)
  IN [files |-> IF Len(episodeFiles) = 1 THEN filesToDownload \o fresh
                ELSE filesToDownload,
      method |-> IF Len(episodeFiles) > 0 THEN "episode" ELSE "alphabetical"]

\* the files the environment can offer
AllFiles == 1..Max(Max(NumFiles, ExpFiles), Max(CapFiles, Max(ResFiles, Len(Catalogue))))

\* the manager's state as one value, threaded through the nested calls
St ==
  [dl |-> downloads, q |-> downloadQueue, active |-> activeDownloads,
   conn |-> downloadConnectionInfo, xf |-> transfers,
   temp |-> tempFile, final |-> finalFile, nextId |-> nextId,
   started |-> started, ev |-> sent]

\* emitDownloadEvent: sends only while the main window is alive
emitDownloadEvent(m, event, id) ==
  IF scope.window THEN [m EXCEPT !.ev = Append(m.ev, <<event, id>>)] ELSE m

\* activeStreams: the ids that have an entry, and the entry of an id
activeStreamsOf(xf) == {x.id : x \in {y \in DOMAIN xf : y.reg}}

activeStreams == activeStreamsOf(transfers)

activeStreams_get(xf, id) == CHOOSE x \in DOMAIN xf : x.reg /\ x.id = id

activeStreams_delete(xf, id) ==
  BagImage(xf, LAMBDA x : IF x.id = id THEN [x EXCEPT !.reg = FALSE] ELSE x)

\* ------------------------------------------------- database/downloads.ts
createDownload(dl, id, f, total, isAutoDownload) ==
  With(dl, id, [fileId |-> f, status |-> "queued", downloadedBytes |-> 0,
                totalBytes |-> total, localPath |-> NoPath, error |-> NoError,
                expiresAt |-> NoExpiry, isAutoDownload |-> isAutoDownload])

updateDownloadProgress(dl, id, bytes) ==
  IF id \in DOMAIN dl
  THEN [dl EXCEPT ![id].downloadedBytes = bytes, ![id].status = "downloading"]
  ELSE dl

updateDownloadStatus(dl, id, status, error) ==
  IF id \in DOMAIN dl
  THEN [dl EXCEPT ![id].status = status, ![id].error = error]
  ELSE dl

completeDownload(dl, id, localPath, expiresAt) ==
  IF id \in DOMAIN dl
  THEN [dl EXCEPT ![id].status = "completed", ![id].localPath = localPath,
                  ![id].expiresAt = expiresAt,
                  ![id].downloadedBytes = dl[id].totalBytes]
  ELSE dl

downloadsDb_pauseDownload(dl, id) ==
  IF id \in DOMAIN dl THEN [dl EXCEPT ![id].status = "paused"] ELSE dl

downloadsDb_resumeDownload(dl, id) ==
  IF id \in DOMAIN dl THEN [dl EXCEPT ![id].status = "queued"] ELSE dl

downloadsDb_deleteDownload(dl, id) == Without(dl, id)

\* rows of the pair in one of the states the query lists
isFileDownloaded(dl, f) ==
  {id \in DOMAIN dl : dl[id].fileId = f
                      /\ dl[id].status \in {"queued", "downloading", "completed"}}

\* completed rows whose expires_at text sorts before datetime('now')
getExpiredDownloads(dl, t) ==
  {id \in DOMAIN dl : /\ dl[id].status = "completed"
                      /\ dl[id].expiresAt # NoExpiry
                      /\ TextLess(dl[id].expiresAt, datetime(t))}

\* ids with status queued or downloading, ORDER BY started_at ASC (creation order)
RECURSIVE SortedIds(_)
SortedIds(S) ==
  IF S = {} THEN <<>>
  ELSE LET lo == CHOOSE x \in S : \A y \in S : x <= y
       IN <<lo>> \o SortedIds(S \ {lo})

getActiveDownloads(dl) ==
  SortedIds({id \in DOMAIN dl : dl[id].status \in {"queued", "downloading"}})

\* ------------------------------------------------------------ file system
\* which file a write stream's descriptor refers to after unlink / rename
UnlinkTemp(xf, name) ==
  BagImage(xf, LAMBDA x : IF NameOf(x.fileId) = name /\ x.wpath = "temp"
                          THEN [x EXCEPT !.wpath = "gone"] ELSE x)

UnlinkFinal(xf, name) ==
  BagImage(xf, LAMBDA x : IF NameOf(x.fileId) = name /\ x.wpath = "final"
                          THEN [x EXCEPT !.wpath = "gone"] ELSE x)

RenameTempToFinal(xf, name) ==
  BagImage(xf, LAMBDA x : IF NameOf(x.fileId) = name /\ x.wpath = "temp"
                          THEN [x EXCEPT !.wpath = "final"] ELSE x)

\* ------------------------------------------------------ peer's Serving API
\* handleDownload: status of the reply to GET /download/<f> with Range bytes=start-
\* (no Range header when start = 0); createReadStream throws when start > end
handleDownloadStatus(fileSize, start) ==
  IF start = 0 THEN 200
  ELSE IF start > fileSize - 1 THEN 500
  ELSE 206

\* first byte offset of the reply body
handleDownloadFirst(fileSize, start) == start

\* header and flags downloadFile derives from startByte (0: no Range header)
RangeStart(startByte) == IF startByte > 0 THEN startByte ELSE 0

OpenFlags(startByte) == IF startByte > 0 THEN "a" ELSE "w"

\* message of an Error thrown by the runtime (socket, file system)
ErrorMessage == "error.message"

HttpError(statusCode) == IF statusCode = 404 THEN "HTTP 404" ELSE "HTTP 500"

\* ---------------------------------------------------------- processDownload
\* the synchronous part of processDownload up to its await (downloadFile's executor)
processDownload(m, id) ==
  IF id \notin DOMAIN m.dl THEN m
  ELSE IF id \notin m.conn
  THEN emitDownloadEvent(
         [m EXCEPT !.dl = updateDownloadStatus(m.dl, id, "failed",
                                               "Connection info not found")],
         "download-failed", id)
  ELSE
    LET name == NameOf(m.dl[id].fileId)
        startByte == IF Exists(m.temp[name]) THEN Len(m.temp[name]) ELSE 0
        m0 == emitDownloadEvent(m, "download-started", id)
    IN [m0 EXCEPT
         !.active = m.active + 1,
         !.started = m.started + 1,
         !.dl = updateDownloadStatus(m.dl, id, "downloading", NoError),
         !.temp = [m.temp EXCEPT ![name] =
                     IF OpenFlags(startByte) = "w" THEN <<>> ELSE m.temp[name]],
         !.xf = BagAdd(activeStreams_delete(m.xf, id),
                       [id |-> id, fileId |-> m.dl[id].fileId, reg |-> TRUE,
                        phase |-> "requested", conn |-> TRUE, ws |-> "open",
                        settled |-> FALSE, startByte |-> startByte,
                        received |-> 0, wpath |-> "temp"])]

\* ------------------------------------------------------------- processQueue
RECURSIVE processQueue(_)
processQueue(m) ==
  IF m.active < MAX_CONCURRENT_DOWNLOADS /\ Len(m.q) > 0
  THEN LET downloadId == Head(m.q)
           m1 == [m EXCEPT !.q = Tail(m.q)]
       IN IF \/ downloadId \notin DOMAIN m1.dl
             \/ m1.dl[downloadId].status \in {"paused", "completed"}
          THEN processQueue(m1)
          ELSE processQueue(processDownload(m1, downloadId))
  ELSE m

\* finally block of processDownload, run when the transfer's promise settles
Finally(m, id) ==
  processQueue([m EXCEPT !.active = m.active - 1,
                         !.xf = activeStreams_delete(m.xf, id)])

\* catch block of processDownload followed by its finally block
CatchFinally(m, id, errorMessage) ==
  Finally(emitDownloadEvent(
            [m EXCEPT !.dl = updateDownloadStatus(m.dl, id, "failed", errorMessage)],
            "download-failed", id),
          id)

\* request.destroy() kills the connection; writeStream.close() calls end() on a
\* stream that is still open, so its 'finish' event is still to come
Aborted(x) ==
  [x EXCEPT !.conn = FALSE, !.ws = IF x.ws = "open" THEN "ended" ELSE x.ws]

\* stream.request.destroy(); stream.writeStream.close(); activeStreams.delete;
\* activeDownloads-- : the common head of pauseDownload and cancelDownload
StopIfActive(m, id) ==
  IF id \in activeStreamsOf(m.xf)
  THEN LET x == activeStreams_get(m.xf, id)
       IN [m EXCEPT !.xf = BagAdd(BagDel(m.xf, x), [Aborted(x) EXCEPT !.reg = FALSE]),
                    !.active = m.active - 1]
  ELSE m

RemoveFromQueue(q, id) == SelectSeq(q, LAMBDA x : x # id)

\* ------------------------------------------------ events of one transfer
\* offset in the source of the next body byte the transfer will receive
NextOffset(x) == handleDownloadFirst(scope.size, RangeStart(x.startByte)) + x.received

\* the whole reply body has arrived: response 'end', pipe ends the write stream
BodyDone(x) == NextOffset(x) > scope.size - 1

\* the transfer holds a connection and its promise is pending
InFlight(x) == x.conn /\ ~x.settled

\* 'finish' is emitted once end() was called (by pipe or by close()) and the
\* listener of lines 425-448 is attached, which the response callback does
FinishPending(x) ==
  /\ x.phase = "receiving"
  /\ \/ x.ws = "ended"
     \/ x.ws = "open" /\ x.conn /\ BodyDone(x)

\* a transfer that can still deliver an event to a listener of downloadFile
Alive(x) ==
  \/ x.phase = "requested" /\ ~x.settled
  \/ x.phase = "receiving" /\ x.conn /\ ~BodyDone(x)
  \/ x.phase = "receiving" /\ x.conn /\ ~x.settled
  \/ FinishPending(x)

Gc(m) == [m EXCEPT !.xf = BagSelect(m.xf, Alive)]

Commit(m) ==
  /\ m.started <= scope.maxStarted
  /\ m.active >= 0 - MaxDrift
  /\ Len(m.ev) <= scope.maxEvents
  /\ downloads' = m.dl
  /\ downloadQueue' = m.q
  /\ activeDownloads' = m.active
  /\ downloadConnectionInfo' = m.conn
  /\ transfers' = m.xf
  /\ tempFile' = m.temp
  /\ finalFile' = m.final
  /\ nextId' = m.nextId
  /\ started' = m.started
  /\ sent' = m.ev

Done(m) == Commit(Gc(m))

\* St with transfer x replaced by y
Step(x, y) == [St EXCEPT !.xf = BagAdd(BagDel(St.xf, x), y)]

Running == proc = "running"

Serving == proc \in {"running", "quitting"}

\* request.on('error'): writeStream.close(); reject(error)
RequestOnError(x) ==
  /\ Serving
  /\ x \in DOMAIN transfers
  /\ \/ x.phase = "requested" /\ ~x.settled
     \/ x.phase = "receiving" /\ x.conn
  /\ LET m1 == Step(x, [Aborted(x) EXCEPT !.settled = TRUE])
     IN Done(IF x.settled THEN m1 ELSE CatchFinally(m1, x.id, ErrorMessage))
  /\ UNCHANGED <<proc, scope, recovering, now, settings, serviceVars, engineVars, detector>>

\* the response callback of httpModule.request: status check, listeners, pipe
ResponseCallback(x, found) ==
  /\ Serving
  /\ x \in DOMAIN transfers
  /\ x.phase = "requested" /\ x.conn /\ ~x.settled
  /\ LET statusCode == IF found
                       THEN handleDownloadStatus(scope.size, RangeStart(x.startByte))
                       ELSE 404
     IN IF statusCode # 200 /\ statusCode # 206
        THEN Done(CatchFinally(Step(x, [x EXCEPT !.settled = TRUE]), x.id,
                               HttpError(statusCode)))
        ELSE Done(Step(x, [x EXCEPT !.phase = "receiving"]))
  /\ UNCHANGED <<proc, scope, recovering, now, settings, serviceVars, engineVars, detector>>

\* response.on('data') and the piped write of the chunk; persist: 100 ms have
\* passed since the last progress update
ResponseOnData(x, persist) ==
  /\ Serving
  /\ x \in DOMAIN transfers
  /\ x.phase = "receiving" /\ x.conn /\ ~BodyDone(x)
  /\ LET name == NameOf(x.fileId)
         byte == SourceBytes(scope.size)[NextOffset(x) + 1]
         m1 == Step(x, [x EXCEPT !.received = x.received + 1])
         m2 == IF x.ws # "open" THEN m1
               ELSE IF x.wpath = "temp"
               THEN [m1 EXCEPT !.temp[name] = Append(m1.temp[name], byte)]
               ELSE IF x.wpath = "final"
               THEN [m1 EXCEPT !.final[name] = Append(m1.final[name], byte)]
               ELSE m1
         m3 == IF persist
               THEN emitDownloadEvent(
                      [m2 EXCEPT !.dl = updateDownloadProgress(
                                          m2.dl, x.id, x.startByte + x.received + 1)],
                      "download-progress", x.id)
               ELSE m2
     IN Done(m3)
  /\ UNCHANGED <<proc, scope, recovering, now, settings, serviceVars, engineVars, detector>>

\* writeStream.on('finish'): delete-then-rename, completeDownload, resolve;
\* a throw of renameSync is caught and rejects
WriteStreamOnFinish(x) ==
  /\ Serving
  /\ x \in DOMAIN transfers
  /\ FinishPending(x)
  /\ LET name == NameOf(x.fileId)
         m0 == [St EXCEPT !.xf = BagDel(St.xf, x)]
         m1 == IF Exists(m0.final[name])
               THEN [m0 EXCEPT !.final[name] = NoFile,
                               !.xf = UnlinkFinal(m0.xf, name)]
               ELSE m0
         renamed == emitDownloadEvent(
                      [m1 EXCEPT !.final[name] = m1.temp[name],
                                 !.temp[name] = NoFile,
                                 !.xf = RenameTempToFinal(m1.xf, name),
                                 !.dl = completeDownload(
                                          m1.dl, x.id, name,
                                          expiresAtOf(now, settings.autoDeleteDays))],
                      "download-completed", x.id)
     IN IF Exists(m1.temp[name])
        THEN Done(IF x.settled THEN renamed ELSE Finally(renamed, x.id))
        ELSE Done(IF x.settled THEN m1 ELSE CatchFinally(m1, x.id, ErrorMessage))
  /\ UNCHANGED <<proc, scope, recovering, now, settings, serviceVars, engineVars, detector>>

\* 'error' of the write stream (open or write failed).  Its listener (lines
\* 450-452) is attached by the response callback; before that the event has
\* no listener and is thrown as an uncaught exception of the main process
WriteStreamOnError(x) ==
  /\ Serving
  /\ x \in DOMAIN transfers
  /\ x.ws = "open" /\ x.conn /\ ~x.settled
  /\ IF x.phase = "requested"
     THEN proc' = "crashed" /\ UNCHANGED managerVars
     ELSE /\ Done(CatchFinally(Step(x, [x EXCEPT !.ws = "errored", !.settled = TRUE]),
                               x.id, ErrorMessage))
          /\ UNCHANGED proc
  /\ UNCHANGED <<scope, recovering, now, settings, serviceVars, engineVars, detector>>

\* -------------------------------------------------------- IPC handlers
\* ids a caller can name: every id ever handed out
KnownIds == 1..(nextId - 1)

\* startDownload(params): params.totalBytes is the size the caller declares
startDownloadParams(f, totalBytes) ==
  /\ Running
  /\ LET existing == isFileDownloaded(downloads, f)
         downloadId == nextId
         m1 == [St EXCEPT !.dl = createDownload(St.dl, downloadId, f, totalBytes,
                                                FALSE),
                          !.conn = St.conn \cup {downloadId},
                          !.q = Append(St.q, downloadId),
                          !.nextId = downloadId + 1]
     IN IF existing # {}
        THEN UNCHANGED managerVars
        ELSE /\ nextId <= scope.maxDownloads
             /\ Done(processQueue(emitDownloadEvent(m1, "download-added", downloadId)))
  /\ UNCHANGED <<proc, scope, recovering, now, settings, serviceVars, engineVars, detector>>

\* startDownload by a caller that declares the size the file has at the peer
startDownload(f) == startDownloadParams(f, scope.size)

pauseDownload(downloadId) ==
  /\ Running
  /\ LET m1 == StopIfActive(St, downloadId)
         m2 == [m1 EXCEPT !.q = RemoveFromQueue(m1.q, downloadId)]
         m3 == [m2 EXCEPT !.dl = downloadsDb_pauseDownload(m2.dl, downloadId)]
     IN Done(emitDownloadEvent(m3, "download-paused", downloadId))
  /\ UNCHANGED <<proc, scope, recovering, now, settings, serviceVars, engineVars, detector>>

resumeDownload(downloadId) ==
  /\ Running
  /\ IF downloadId \notin DOMAIN downloads \/ downloads[downloadId].status # "paused"
     THEN UNCHANGED managerVars
     ELSE Done(processQueue(emitDownloadEvent(
            [St EXCEPT !.dl = downloadsDb_resumeDownload(St.dl, downloadId),
                       !.q = Append(St.q, downloadId)],
            "download-resumed", downloadId)))
  /\ UNCHANGED <<proc, scope, recovering, now, settings, serviceVars, engineVars, detector>>

cancelDownload(downloadId) ==
  /\ Running
  /\ LET m1 == StopIfActive(St, downloadId)
         m2 == [m1 EXCEPT !.q = RemoveFromQueue(m1.q, downloadId)]
         m3 == IF downloadId \in DOMAIN m2.dl
               THEN LET name == NameOf(m2.dl[downloadId].fileId)
                    IN IF Exists(m2.temp[name])
                       THEN [m2 EXCEPT !.temp[name] = NoFile,
                                       !.xf = UnlinkTemp(m2.xf, name)]
                       ELSE m2
               ELSE m2
         m4 == [m3 EXCEPT !.dl = downloadsDb_deleteDownload(m3.dl, downloadId),
                          !.conn = m3.conn \ {downloadId}]
     IN Done(processQueue(emitDownloadEvent(m4, "download-cancelled", downloadId)))
  /\ UNCHANGED <<proc, scope, recovering, now, settings, serviceVars, engineVars, detector>>

\* retryDownload without its check of the status
retryDownload_Unchecked(downloadId) ==
  /\ Running
  /\ IF downloadId \notin DOMAIN downloads
     THEN UNCHANGED managerVars
     ELSE Done(processQueue(emitDownloadEvent(
            [St EXCEPT !.dl = updateDownloadStatus(St.dl, downloadId, "queued", NoError),
                       !.q = Append(St.q, downloadId)],
            "download-retrying", downloadId)))
  /\ UNCHANGED <<proc, scope, recovering, now, settings, serviceVars, engineVars, detector>>

retryDownload(downloadId) ==
  /\ Running
  /\ IF downloadId \notin DOMAIN downloads \/ downloads[downloadId].status # "failed"
     THEN UNCHANGED managerVars
     ELSE Done(processQueue(emitDownloadEvent(
            [St EXCEPT !.dl = updateDownloadStatus(St.dl, downloadId, "queued", NoError),
                       !.q = Append(St.q, downloadId)],
            "download-retrying", downloadId)))
  /\ UNCHANGED <<proc, scope, recovering, now, settings, serviceVars, engineVars, detector>>

deleteDownload(downloadId) ==
  /\ Running
  /\ IF downloadId \notin DOMAIN downloads
     THEN UNCHANGED managerVars
     ELSE LET localPath == downloads[downloadId].localPath
              m1 == IF localPath # NoPath /\ Exists(St.final[localPath])
                    THEN [St EXCEPT !.final[localPath] = NoFile,
                                    !.xf = UnlinkFinal(St.xf, localPath)]
                    ELSE St
          IN Done(emitDownloadEvent(
                    [m1 EXCEPT !.dl = downloadsDb_deleteDownload(m1.dl, downloadId),
                               !.conn = m1.conn \ {downloadId}],
                    "download-deleted", downloadId))
  /\ UNCHANGED <<proc, scope, recovering, now, settings, serviceVars, engineVars, detector>>

\* --------------------------------------------------------- process life
\* cleanup(), the 'before-quit' handler
cleanup ==
  /\ Running
  /\ LET stopped == activeStreams
         m1 == [St EXCEPT
                 !.xf = BagImage(St.xf, LAMBDA x : IF x.reg
                                          THEN [Aborted(x) EXCEPT !.reg = FALSE]
                                          ELSE x),
                 !.dl = [id \in DOMAIN St.dl |->
                           IF id \in stopped
                           THEN downloadsDb_pauseDownload(St.dl, id)[id]
                           ELSE St.dl[id]],
                 !.q = << >>,
                 !.active = 0]
     IN Done(m1)
  /\ proc' = "quitting"
  /\ UNCHANGED <<scope, recovering, now, settings, serviceVars, engineVars, detector>>

\* body of the loop of initDownloadManager for one row of getActiveDownloads
\* without the reset of a 'downloading' row
initRow_NoReset(m, download) ==
  [m EXCEPT !.q = Append(m.q, download.id)]

\* body of the loop of initDownloadManager for one row of getActiveDownloads
initRow(m, download) ==
  LET m1 == IF download.status = "downloading"
            THEN [m EXCEPT !.dl = updateDownloadStatus(m.dl, download.id, "queued",
                                                       NoError)]
            ELSE m
  IN [m1 EXCEPT !.q = Append(m1.q, download.id)]

\* the loop; pushed records, for each row read as 'downloading', the status
\* the ledger holds for its id once the id is in the queue
RECURSIVE initLoop(_, _, _, _)
initLoop(rows, snapshot, m, pushed) ==
  IF rows = << >> THEN [m |-> m, pushed |-> pushed]
  ELSE LET id == Head(rows)
           download == [id |-> id, status |-> snapshot[id].status]
           m1 == initRow(m, download)
       IN initLoop(Tail(rows), snapshot, m1,
                   IF download.status = "downloading"
                   THEN With(pushed, id, m1.dl[id].status)
                   ELSE pushed)

\* the process ends (quit, kill or crash) and the application is started
\* again: module state is fresh, the ledger and the files persist, and
\* initDownloadManager runs: its loop, then processQueue()
initDownloadManager ==
  /\ LET fresh == [St EXCEPT !.q = << >>, !.active = 0, !.conn = {},
                              !.xf = << >>]
         loop == initLoop(getActiveDownloads(downloads), downloads, fresh, << >>)
     IN /\ Done(processQueue(loop.m))
        /\ recovering' = loop.pushed
  /\ proc' = "running"
  /\ currentlyPlaying' = NoFileId
  /\ autoDownloadQueue' = << >>
  /\ fetching' = << >>
  /\ played' = NoPlay
  /\ UNCHANGED <<scope, now, settings, serviceVars, detector>>

\* ------------------------------------------------------ autoDeleteService
\* time passes
Tick ==
  /\ now < scope.maxTime
  /\ now' = now + 1
  /\ UNCHANGED <<managerVars, proc, scope, recovering, settings, serviceVars, engineVars, detector>>

\* the try block of runCleanup's loop for one expired download, without its
\* catch: a throw ends the run's loop
cleanupItem_NoCatch(m, download, unlinkFails, deleteFails) ==
  LET hasFile == download.localPath # NoPath /\ Exists(m.final[download.localPath])
      m1 == IF hasFile
            THEN [m EXCEPT !.final[download.localPath] = NoFile,
                           !.xf = UnlinkFinal(m.xf, download.localPath)]
            ELSE m
  IN IF hasFile /\ download.id \in unlinkFails THEN [m |-> m, thrown |-> TRUE]
     ELSE IF download.id \in deleteFails THEN [m |-> m1, thrown |-> TRUE]
     ELSE [m |-> [m1 EXCEPT !.dl = downloadsDb_deleteDownload(m1.dl, download.id)],
           thrown |-> FALSE]

\* the body of runCleanup's loop for one expired download: unlinkSync of the
\* local file if it exists, deleteDownload of the record; a throw of either
\* (unlinkFails, deleteFails: the ids for which it throws) is caught and logged
cleanupItem(m, download, unlinkFails, deleteFails) ==
  LET hasFile == download.localPath # NoPath /\ Exists(m.final[download.localPath])
      m1 == IF hasFile
            THEN [m EXCEPT !.final[download.localPath] = NoFile,
                           !.xf = UnlinkFinal(m.xf, download.localPath)]
            ELSE m
  IN IF hasFile /\ download.id \in unlinkFails THEN [m |-> m, thrown |-> FALSE]
     ELSE IF download.id \in deleteFails THEN [m |-> m1, thrown |-> FALSE]
     ELSE [m |-> [m1 EXCEPT !.dl = downloadsDb_deleteDownload(m1.dl, download.id)],
           thrown |-> FALSE]

\* the loop of runCleanup over the rows of getExpiredDownloads
RECURSIVE cleanupLoop(_, _, _, _, _)
cleanupLoop(rows, snapshot, m, unlinkFails, deleteFails) ==
  IF rows = << >> THEN m
  ELSE LET id == Head(rows)
           r == cleanupItem(m, [id |-> id, localPath |-> snapshot[id].localPath],
                            unlinkFails, deleteFails)
       IN IF r.thrown THEN r.m
          ELSE cleanupLoop(Tail(rows), snapshot, r.m, unlinkFails, deleteFails)

\* runCleanup: at startup, on the hourly tick of the scheduler, or on demand
runCleanup(unlinkFails, deleteFails) ==
  /\ Running
  /\ LET expiredDownloads == SortedIds(getExpiredDownloads(downloads, now))
     IN Done(cleanupLoop(expiredDownloads, downloads, St, unlinkFails, deleteFails))
  /\ UNCHANGED <<proc, scope, recovering, now, settings, serviceVars, engineVars, detector>>

\* ------------------------------------------------ folders of the peer
\* the folders of at most n of the entries, in the order of the catalogue
Listings(entries, n) ==
  {SelectSeq(entries, LAMBDA e : e.id \in ids) :
     ids \in {S \in SUBSET {entries[i].id : i \in 1..Len(entries)} : Cardinality(S) <= n}}

\* a folder as the detector sees it, each name parsed once
Folder(list) ==
  LET names == {list[i].name : i \in 1..Len(list)}
      infoOf == [name \in names |-> parseEpisodeInfo(name)]
  IN [NoCall EXCEPT
        !.allFiles = list,
        !.infoOf = infoOf,
        !.showKeyOf = [name \in names |->
                         IF infoOf[name] = NoInfo THEN << >>
                         ELSE normalizeShowName(infoOf[name][1].showName)]]

Reverse(list) == [i \in 1..Len(list) |-> list[Len(list) + 1 - i]]

FilesOf(list) == {e \in Range(list) : e.type = "file"}

\* ------------------------------------------- services/autoDownloadManager.ts
\* downloadManager.startDownload on the threaded state
downloadManager_startDownload(m, f, totalBytes, isAutoDownload) ==
  LET downloadId == m.nextId
      m1 == [m EXCEPT !.dl = createDownload(m.dl, downloadId, f, totalBytes,
                                            isAutoDownload),
                      !.conn = m.conn \cup {downloadId},
                      !.q = Append(m.q, downloadId),
                      !.nextId = downloadId + 1]
  IN IF isFileDownloaded(m.dl, f) # {} THEN m
     ELSE processQueue(emitDownloadEvent(m1, "download-added", downloadId))

\* what can listen at deviceIp:devicePort: nothing, the Serving API of this
\* application, or a server that routes GET /api/v1/siblings/:fileId
Peers == {"down", "ServingApi", "SiblingsApi"}

\* a reply: the fetch rejected, or the status is 2xx or not, and the body
Reply(ok, siblings, items) ==
  [error |-> FALSE, ok |-> ok, siblings |-> siblings, items |-> items]

NetworkError == [Reply(FALSE, << >>, << >>) EXCEPT !.error = TRUE]

NotFound == Reply(FALSE, << >>, << >>)

\* the enabled shared folder of the peer, which holds the folder at hand
SharedFolder ==
  [id |-> Len(Catalogue) + 1, type |-> "folder", name |-> <<"T", "V">>]

\* GET /api/v1/files without a path: the shared folders as directories
handleListFiles == Reply(TRUE, << >>, <<SharedFolder>>)

\* GET /api/v1/files/:fileId/siblings: the entries of type file of the folder
handleFileSiblings(fileId) ==
  IF \E e \in FilesOf(detector.allFiles) : e.id = fileId
  THEN Reply(TRUE, SelectSeq(detector.allFiles, LAMBDA e : e.type = "file"), << >>)
  ELSE NotFound

\* the routes of startServer; any other path is answered 404
ServingApi(route, fileId) ==
  CASE route = "/api/v1/files" -> handleListFiles
    [] route = "/api/v1/files/:fileId/siblings" -> handleFileSiblings(fileId)
    [] OTHER -> NotFound

\* fetch(`http://${ip}:${port}${route}`)
fetch(peer, route, fileId) ==
  CASE peer = "down" -> NetworkError
    [] peer = "ServingApi" -> ServingApi(route, fileId)
    [] peer = "SiblingsApi" ->
         IF route = "/api/v1/siblings/:fileId"
         THEN Reply(TRUE, detector.allFiles, << >>)
         ELSE NotFound

fetchFileSiblings(peer, fileId) ==
  LET response == fetch(peer, "/api/v1/siblings/:fileId", fileId)
      filesResponse == fetch(peer, "/api/v1/files", fileId)
  IN IF response.error
     THEN << >>
     ELSE IF ~response.ok
          THEN IF filesResponse.error \/ ~filesResponse.ok
               THEN << >>
               ELSE filesResponse.items
          ELSE response.siblings

\* the return of setPlayingFile before it triggers anything
returnEarly(fileId, why) ==
  /\ played' = [fileId |-> fileId, result |-> why, logged |-> FALSE]
  /\ UNCHANGED <<currentlyPlaying, fetching>>

\* lines 48-52: the trigger is set and the siblings are asked for
trigger(fileId) ==
  /\ BagSize(fetching) < scope.maxFetching
  /\ currentlyPlaying' = fileId
  /\ fetching' = BagAdd(fetching, fileId)
  /\ played' = [fileId |-> fileId, result |-> "pending", logged |-> FALSE]

\* setPlayingFile without the test of lines 44-46
setPlayingFile_Retrigger(fileId) ==
  /\ Running
  /\ IF ~settings.autoDownloadEnabled
     THEN returnEarly(fileId, "disabled")
     ELSE trigger(fileId)
  /\ UNCHANGED <<managerVars, autoDownloadQueue, proc, scope, recovering, now,
                 settings, serviceVars, detector>>

\* IPC set-playing-file up to the await of fetchFileSiblings
setPlayingFile(fileId) ==
  /\ Running
  /\ IF ~settings.autoDownloadEnabled
     THEN returnEarly(fileId, "disabled")
     ELSE IF currentlyPlaying = fileId
          THEN returnEarly(fileId, "same")
          ELSE trigger(fileId)
  /\ UNCHANGED <<managerVars, autoDownloadQueue, proc, scope, recovering, now,
                 settings, serviceVars, detector>>

\* the call of startDownload without the flag
submitFile_Unflagged(m, file) ==
  downloadManager_startDownload(m, file.id, scope.size, FALSE)

\* lines 92-102
submitFile(m, file) ==
  downloadManager_startDownload(m, file.id, scope.size, TRUE)

\* lines 84-103 from file n on, after so many calls of startDownload; the call
\* number throwsAt throws
RECURSIVE submitLoop(_, _, _, _, _)
submitLoop(files, n, m, calls, throwsAt) ==
  IF n > Len(files)
  THEN [m |-> m, thrown |-> FALSE]
  ELSE IF isFileDownloaded(m.dl, files[n].id) # {}
       THEN submitLoop(files, n + 1, m, calls, throwsAt)
       ELSE IF calls + 1 = throwsAt
            THEN [m |-> m, thrown |-> TRUE]
            ELSE submitLoop(files, n + 1, submitFile(m, files[n]), calls + 1, throwsAt)

\* a promise that rejects with what was thrown
settle_Rethrow(thrown) ==
  [result |-> IF thrown THEN "rejected" ELSE "fulfilled", logged |-> FALSE]

\* lines 104-106: what was thrown is logged, the promise is fulfilled
settle(thrown) == [result |-> "fulfilled", logged |-> thrown]

\* setPlayingFile from the reply of the peer on
fetchSettled(fileId, peer, throwsAt) ==
  /\ Running
  /\ fileId \in DOMAIN fetching
  /\ LET siblings == fetchFileSiblings(peer, fileId)
         found == {i \in 1..Len(siblings) : siblings[i].id = fileId}
         currentFile == siblings[CHOOSE i \in found : \A j \in found : i <= j]
         selection == findFilesToAutoDownload(currentFile, siblings)
         queueItem == [playingFileId |-> fileId,
                       queuedFileIds |-> [i \in 1..Len(selection.files) |->
                                            selection.files[i].id],
                       detectionMethod |-> selection.method]
         loop == submitLoop(selection.files, 1, St, 0, throwsAt)
         outcome(thrown) ==
           played' = [fileId |-> fileId, result |-> settle(thrown).result,
                      logged |-> settle(thrown).logged]
     IN IF siblings = << >> \/ found = {}
        THEN /\ throwsAt = 0
             /\ outcome(FALSE)
             /\ UNCHANGED <<managerVars, autoDownloadQueue>>
        ELSE /\ Len(autoDownloadQueue) < scope.maxBatches
             /\ throwsAt = 0 \/ loop.thrown
             /\ loop.m.nextId - 1 <= scope.maxDownloads
             /\ autoDownloadQueue' = Append(autoDownloadQueue, queueItem)
             /\ Done(loop.m)
             /\ outcome(loop.thrown)
  /\ fetching' = BagDel(fetching, fileId)
  /\ UNCHANGED <<currentlyPlaying, proc, scope, recovering, now, settings, serviceVars, detector>>

\* ------------------------------------------------- discovery services
\* Number.NaN; a number n is <<n>>
NaN == << >>

\* parseInt(text, 10): white space, a sign, then the longest run of digits
parseInt10(text) ==
  LET t == trimStart(text)
      signed == t # << >> /\ Head(t) \in {"+", "-"}
      body == IF signed THEN Tail(t) ELSE t
      r == matchItems(body, 1, <<Cap(Digit, 1, Unbounded)>>)
  IN IF ~r.ok
     THEN NaN
     ELSE <<(IF signed /\ Head(t) = "-" THEN -1 ELSE 1) * parseInt(r.caps[1])>>

\* String.prototype.split with a separator of one character
RECURSIVE split(_, _)
split(s, separator) ==
  IF \E i \in 1..Len(s) : s[i] = separator
  THEN LET i == CHOOSE i \in 1..Len(s) :
                  s[i] = separator /\ \A j \in 1..(i - 1) : s[j] # separator
       IN <<SubSeq(s, 1, i - 1)>> \o split(SubSeq(s, i + 1, Len(s)), separator)
  ELSE <<s>>

\* Array.prototype.join
RECURSIVE join(_, _)
join(parts, separator) ==
  IF parts = << >> THEN << >>
  ELSE IF Len(parts) = 1 THEN parts[1]
  ELSE parts[1] \o <<separator>> \o join(Tail(parts), separator)

startsWith(s, prefix) ==
  Len(s) >= Len(prefix) /\ SubSeq(s, 1, Len(prefix)) = prefix

\* /^\d+\.\d+\.\d+\.\d+$/, from the start of the string
DottedDecimal ==
  <<Cls(Digit, 1, Unbounded), Lit("."), Cls(Digit, 1, Unbounded), Lit("."),
    Cls(Digit, 1, Unbounded), Lit("."), Cls(Digit, 1, Unbounded), Eos>>

\* /_\d+_\d+-\d+-\d+-\d+$/
EncodedSuffix ==
  <<<<Lit("_"), Cls(Digit, 1, Unbounded), Lit("_"),
      Cls(Digit, 1, Unbounded), Lit("-"), Cls(Digit, 1, Unbounded), Lit("-"),
      Cls(Digit, 1, Unbounded), Lit("-"), Cls(Digit, 1, Unbounded), Eos>>>>

\* null, and a value v as <<v>>
Null == << >>

\* the two trailing segments of a service name, as decodeServiceName reads them
decodeParts(serviceName) ==
  LET parts == split(serviceName, "_")
  IN [ip |-> replaceAll(parts[Len(parts)], <<<<Lit("-")>>>>, <<".">>),
      port |-> parseInt10(parts[Len(parts) - 1]),
      name |-> join(SubSeq(parts, 1, Len(parts) - 2), "_")]

\* desktop: decodeServiceName
decodeServiceName(serviceName) ==
  IF Len(split(serviceName, "_")) < 3
  THEN Null
  ELSE LET d == decodeParts(serviceName)
       IN IF d.port = NaN \/ ~matchItems(d.ip, 1, DottedDecimal).ok
          THEN Null
          ELSE <<[name |-> d.name, port |-> d.port[1], ip |-> d.ip]>>

\* mobile: decodeServiceName, which also refuses a port that is not positive
mobile_decodeServiceName(serviceName) ==
  IF Len(split(serviceName, "_")) < 3
  THEN Null
  ELSE LET d == decodeParts(serviceName)
       IN IF \/ d.port = NaN
             \/ d.port[1] <= 0
             \/ ~matchItems(d.ip, 1, DottedDecimal).ok
          THEN Null
          ELSE <<[name |-> d.name, port |-> d.port[1], ip |-> d.ip]>>

\* the addresses of the devices on the network; OurLocalIp is getLocalIPv4()
OurLocalIp == <<"1", ".", "1", ".", "1", ".", "1">>

IpA == <<"1", ".", "1", ".", "1", ".", "2">>

IpB == <<"1", ".", "1", ".", "1", ".", "3">>

IpV6 == <<"f", "e", "8", "0", ":", ":", "2">>

\* crypto.randomUUID() of this device, and the device ids of two peers
OurDeviceId == <<"m", "e">>

DeviceA == <<"a">>

DeviceB == <<"b">>

\* String(n) of a number
RECURSIVE digitsOf(_)
digitsOf(n) ==
  IF n < 10
  THEN <<Digits[n + 1]>>
  ELSE digitsOf(n \div 10) \o <<Digits[(n % 10) + 1]>>

String(v) ==
  IF v = NaN THEN <<"N", "a", "N">>
  ELSE IF v[1] < 0 THEN <<"-">> \o digitsOf(-v[1])
  ELSE digitsOf(v[1])

MAX_DEVICE_NAME_LENGTH == 20

\* String.prototype.substring(0, end)
substring(s, end) == SubSeq(s, 1, IF Len(s) < end THEN Len(s) ELSE end)

\* an encoder that keeps the whole device name
encodeServiceName_Untruncated(deviceName, port, ip) ==
  deviceName \o <<"_">> \o String(<<port>>) \o <<"_">> \o
  replaceAll(ip, <<<<Lit(".")>>>>, <<"-">>)

\* encodeServiceName: `${truncatedName}_${port}_${encodedIp}`
encodeServiceName(deviceName, port, ip) ==
  LET truncatedName == substring(deviceName, MAX_DEVICE_NAME_LENGTH)
      encodedIp == replaceAll(ip, <<<<Lit(".")>>>>, <<"-">>)
  IN truncatedName \o <<"_">> \o String(<<port>>) \o <<"_">> \o encodedIp

\* a service as the browser reports it; a TXT key that is absent is ""
Txt(deviceId, displayName, temp) ==
  [deviceId |-> deviceId, displayName |-> displayName, ip |-> << >>,
   temp |-> temp]

Service(name, port, addresses, txt) ==
  [name |-> name, port |-> port, addresses |-> addresses, txt |-> txt]

NoTxt == Txt(<< >>, << >>, FALSE)

\* the advertisements on the network: peer A at IpA:8 under its encoded name
\* with and without TXT records, under a plain name, and under another id;
\* this device by id, by encoded address and by resolved address; a temporary
\* service; peer B at IpB:9; a name with a leading '_'; peer A moved to IpB:9;
\* peer B with an encoded name for its display name
Advertisements ==
  <<Service(encodeServiceName(<<"P">>, 8, IpA), 8, <<IpA>>, NoTxt),
    Service(encodeServiceName(<<"P">>, 8, IpA), 8, <<IpA>>,
            Txt(DeviceA, <<"P", "C">>, FALSE)),
    Service(<<"P", "C">>, 8, <<IpA>>, Txt(DeviceA, << >>, FALSE)),
    Service(<<"Q">>, 8, <<IpV6, IpA>>, Txt(DeviceB, << >>, FALSE)),
    Service(<<"P", "C">>, 8, <<IpB>>, Txt(OurDeviceId, << >>, FALSE)),
    Service(encodeServiceName(<<"M">>, 8, OurLocalIp), 8, << >>, NoTxt),
    Service(<<"M">>, 8, <<OurLocalIp>>, NoTxt),
    Service(<<"_", "t", "e", "m", "p", "_", "a">>, 8, <<IpA>>,
            Txt(DeviceA, << >>, TRUE)),
    Service(<<"Q">>, 9, <<IpB>>, Txt(DeviceB, << >>, FALSE)),
    Service(<<"_", "x">>, 9, <<IpB>>, NoTxt),
    Service(<<"P", "C">>, 9, <<IpB>>, Txt(DeviceA, << >>, FALSE)),
    Service(<<"Q">>, 9, <<IpB>>,
            Txt(DeviceB, encodeServiceName(<<"Q">>, 9, IpB), FALSE))>>

Services == Range(Advertisements)

\* a || b on strings: the empty string is falsy
Or(a, b) == IF a # << >> THEN a ELSE b

\* a display name that is not a raw / encoded fallback name
isBetter(name) ==
  ~startsWith(name, <<"_">>) /\ ~match(name, EncodedSuffix).ok

\* the names of the advertisements and the display names they can give
AdvertisedNames == {service.name : service \in Services}

DisplayNames ==
  AdvertisedNames \cup {service.txt.displayName : service \in Services}
  \cup {decodeServiceName(n)[1].name : n \in {x \in AdvertisedNames : decodeServiceName(x) # Null}}

\* what the handlers compute from a name, for each name that can come up
Network ==
  [decodeServiceName |-> [n \in AdvertisedNames |-> decodeServiceName(n)],
   mobile_decodeServiceName |-> [n \in AdvertisedNames |-> mobile_decodeServiceName(n)],
   isBetter |-> [n \in DisplayNames |-> isBetter(n)]]

\* Map.prototype.get / set / delete on a Map kept as the sequence of its
\* values in insertion order, each with its key in the field id
Map_has(map, id) == \E i \in 1..Len(map) : map[i].id = id

Map_set(map, value) ==
  IF Map_has(map, value.id)
  THEN [i \in 1..Len(map) |-> IF map[i].id = value.id THEN value ELSE map[i]]
  ELSE Append(map, value)

Map_delete(map, id) == SelectSeq(map, LAMBDA e : e.id # id)

\* what the last event of a discovery service was and what its handler logged
NoEvent ==
  [event |-> "none", service |-> Service(<< >>, 0, << >>, NoTxt), message |-> "none"]

\* desktop: ip, servicePort and displayName of browser.on('up')
resolve(service) ==
  LET decodedName == network.decodeServiceName[service.name]
      ipv4 == SelectSeq(service.addresses, LAMBDA addr : ":" \notin Range(addr))
  IN IF decodedName # Null
     THEN [ip |-> decodedName[1].ip, port |-> decodedName[1].port,
           name |-> Or(service.txt.displayName, decodedName[1].name)]
     ELSE [ip |-> Or(service.txt.ip,
                     IF ipv4 # << >> THEN ipv4[1]
                     ELSE IF service.addresses # << >> THEN service.addresses[1]
                     ELSE << >>),
           port |-> service.port,
           name |-> Or(service.txt.displayName, service.name)]

\* a loop that never finds a duplicate
dedupe_None(map, i, new) == [map |-> map, message |-> "Discovered device"]

\* a loop that keeps the entry it finds, whatever the names
RECURSIVE dedupe_KeepExisting(_, _, _)
dedupe_KeepExisting(map, i, new) ==
  IF i > Len(map)
  THEN [map |-> map, message |-> "Discovered device"]
  ELSE IF map[i].ip = new.ip /\ map[i].port = new.port
  THEN [map |-> map, message |-> "Skipping duplicate device"]
  ELSE dedupe_KeepExisting(map, i + 1, new)

\* the de-duplication loop over discoveredDevices.entries(): the table it
\* leaves and whether the handler goes on to set the new device
RECURSIVE dedupe(_, _, _)
dedupe(map, i, new) ==
  IF i > Len(map)
  THEN [map |-> map, message |-> "Discovered device"]
  ELSE LET existingDevice == map[i]
       IN IF existingDevice.ip = new.ip /\ existingDevice.port = new.port
          THEN IF network.isBetter[existingDevice.name] /\ ~network.isBetter[new.name]
               THEN [map |-> map, message |-> "Skipping duplicate device, already have"]
               ELSE IF network.isBetter[new.name] /\ ~network.isBetter[existingDevice.name]
               THEN dedupe(Map_delete(map, existingDevice.id), i, new)
               ELSE [map |-> map, message |-> "Skipping duplicate device"]
          ELSE dedupe(map, i + 1, new)

\* a handler without the two checks for this device's own service
onUp_NoSelfCheck(map, service) ==
  LET r == resolve(service)
      device == [id |-> Or(service.txt.deviceId, service.name),
                 name |-> r.name, ip |-> r.ip, port |-> r.port]
      d == dedupe(map, 1, device)
  IN IF d.message = "Discovered device"
     THEN [map |-> Map_set(d.map, device), message |-> d.message]
     ELSE d

\* browser.on('up'): the table after the event and the line it logs
onUp(map, service) ==
  IF service.txt.deviceId = OurDeviceId
  THEN [map |-> map, message |-> "Skipping our own service (matched by deviceId)"]
  ELSE IF startsWith(service.name, <<"_", "t", "e", "m", "p", "_">>) \/ service.txt.temp
  THEN [map |-> map, message |-> "Skipping temporary service"]
  ELSE LET r == resolve(service)
       IN IF r.ip = OurLocalIp
          THEN [map |-> map, message |-> "Skipping our own service (matched by IP)"]
          ELSE LET device == [id |-> Or(service.txt.deviceId, service.name),
                              name |-> r.name, ip |-> r.ip, port |-> r.port]
                   d == dedupe(map, 1, device)
               IN IF d.message = "Discovered device"
                  THEN [map |-> Map_set(d.map, device), message |-> d.message]
                  ELSE d

browserOnUp(service) ==
  /\ discoveredDevices' = onUp(discoveredDevices, service).map
  /\ mdnsLog' = [event |-> "up", service |-> service,
                 message |-> onUp(discoveredDevices, service).message]
  /\ announced' = announced \cup ({service} \cap scope.followed)
  /\ UNCHANGED <<downloadVars, devices, processedServices, polling, network, decoded,
                 served, shareVars>>

\* browser.on('down')
browserOnDown(service) ==
  LET deviceId == Or(service.txt.deviceId, service.name)
  IN /\ IF Map_has(discoveredDevices, deviceId)
        THEN /\ discoveredDevices' = Map_delete(discoveredDevices, deviceId)
             /\ mdnsLog' = [event |-> "down", service |-> service,
                            message |-> "went offline"]
        ELSE /\ UNCHANGED discoveredDevices
             /\ mdnsLog' = [event |-> "down", service |-> service,
                            message |-> "none"]
     /\ announced' = announced \ {service}
     /\ UNCHANGED <<downloadVars, devices, processedServices, polling, network,
                    decoded, served, shareVars>>

\* mobile: ourEncodedServiceName while the service is published; ourDeviceId
\* is OurDeviceId
ourEncodedServiceName == encodeServiceName(<<"M">>, 8, OurLocalIp)

\* devicesStore.addDevice: update the entry of the same id, or add one
addDevice(list, device) ==
  IF \E i \in 1..Len(list) : list[i].id = device.id
  THEN LET existingIndex == CHOOSE i \in 1..Len(list) :
                              list[i].id = device.id
                              /\ \A j \in 1..(i - 1) : list[j].id # device.id
       IN [list EXCEPT ![existingIndex] = [device EXCEPT !.isOnline = TRUE]]
  ELSE Append(list, [device EXCEPT !.isOnline = TRUE])

\* devicesStore.markOffline
markOffline(list, deviceId) ==
  [i \in 1..Len(list) |->
     IF list[i].id = deviceId THEN [list[i] EXCEPT !.isOnline = FALSE] ELSE list[i]]

\* mobile: handleResolvedService, the list after the call and the line it logs
handleResolvedService(list, service) ==
  IF service.txt.deviceId = OurDeviceId
  THEN [list |-> list, message |-> "Skipping our own device (by deviceId)"]
  ELSE IF service.name = ourEncodedServiceName
  THEN [list |-> list, message |-> "Skipping our own device (by service name)"]
  ELSE IF startsWith(service.name, <<"_", "t", "e", "m", "p", "_">>)
  THEN [list |-> list, message |-> "Skipping temp service"]
  ELSE LET decodedName == network.mobile_decodeServiceName[service.name]
           id == Or(service.txt.deviceId, service.name)
       IN IF decodedName # Null
          THEN [list |-> addDevice(list,
                           [id |-> id,
                            name |-> Or(service.txt.displayName, decodedName[1].name),
                            ip |-> decodedName[1].ip, port |-> decodedName[1].port,
                            isOnline |-> TRUE]),
                message |-> "Adding device to store"]
          ELSE IF service.port > 0 /\ service.addresses # << >>
          THEN [list |-> addDevice(list,
                           [id |-> id,
                            name |-> Or(service.txt.displayName, service.name),
                            ip |-> service.addresses[1], port |-> service.port,
                            isOnline |-> TRUE]),
                message |-> "Adding device to store"]
          ELSE [list |-> list, message |-> "Cannot resolve device"]

\* zeroconf.on('found'): an encoded name is processed at once, once; any
\* other name starts an interval that polls for its resolution
zeroconfOnFound(name) ==
  LET decodedName == network.mobile_decodeServiceName[name]
  IN /\ IF decodedName # Null /\ name \notin processedServices
        THEN LET service == Service(name, decodedName[1].port,
                                    <<decodedName[1].ip>>, NoTxt)
                 r == handleResolvedService(devices, service)
             IN /\ processedServices' = processedServices \cup {name}
                /\ devices' = r.list
                /\ mdnsLog' = [event |-> "found", service |-> service,
                               message |-> r.message]
                /\ UNCHANGED polling
        ELSE /\ polling' = polling \cup {name}
             /\ mdnsLog' = [event |-> "found",
                            service |-> Service(name, 0, << >>, NoTxt),
                            message |-> "waiting for resolution"]
             /\ UNCHANGED <<devices, processedServices>>
     /\ UNCHANGED <<downloadVars, discoveredDevices, network, announced,
                 decoded, served, shareVars>>

\* the interval of 'found' finds the service resolved: zeroconf.getServices()
\* holds it with a host
pollResolved(service) ==
  /\ service.name \in polling
  /\ service.name \notin processedServices
  /\ LET r == handleResolvedService(devices, service)
     IN /\ devices' = r.list
        /\ mdnsLog' = [event |-> "poll", service |-> service, message |-> r.message]
  /\ processedServices' = processedServices \cup {service.name}
  /\ polling' = polling \ {service.name}
  /\ UNCHANGED <<downloadVars, discoveredDevices, network, announced,
                 decoded, served, shareVars>>

\* the interval reaches maxAttempts without a resolution
pollMaxAttempts(name) ==
  /\ name \in polling
  /\ polling' = polling \ {name}
  /\ mdnsLog' = [event |-> "poll", service |-> Service(name, 0, << >>, NoTxt),
                 message |-> "Max poll attempts reached"]
  /\ UNCHANGED <<downloadVars, discoveredDevices, devices, processedServices,
                 network, announced,
                 decoded, served, shareVars>>

\* zeroconf.on('resolved')
zeroconfOnResolved(service) ==
  /\ LET r == handleResolvedService(devices, service)
     IN /\ devices' = r.list
        /\ mdnsLog' = [event |-> "resolved", service |-> service,
                       message |-> r.message]
  /\ UNCHANGED <<downloadVars, discoveredDevices, processedServices, polling,
                 network, announced,
                 decoded, served, shareVars>>

\* zeroconf.on('removed')
zeroconfOnRemoved(service) ==
  /\ devices' = markOffline(devices, Or(service.txt.deviceId, service.name))
  /\ mdnsLog' = [event |-> "removed", service |-> service, message |-> "Device removed"]
  /\ UNCHANGED <<downloadVars, discoveredDevices, processedServices, polling,
                 network, announced,
                 decoded, served, shareVars>>

\* one call of decodeServiceName, of the desktop or of the mobile application
NoDecode == [platform |-> "none", serviceName |-> << >>, result |-> Null]

callDecodeServiceName(platform, serviceName) ==
  /\ decoded' = [platform |-> platform, serviceName |-> serviceName,
                 result |-> IF platform = "desktop"
                            THEN decodeServiceName(serviceName)
                            ELSE mobile_decodeServiceName(serviceName)]
  /\ UNCHANGED <<downloadVars, discoveryVars, served, shareVars>>

\* a peer publishes under the encoded name and the browser of the platform
\* decodes it
publishEncoded(platform, deviceName, port, ip) ==
  callDecodeServiceName(platform, encodeServiceName(deviceName, port, ip))

\* the device names, ports and addresses peers publish: names that are
\* empty, short, of 20 characters and longer, with underscores at the ends,
\* around the cut and in front of digits
DeviceNames ==
  {<< >>, <<"P">>, <<"_">>, <<"P", "_", "c">>, <<"a", "_", "8", "_", "9">>,
   <<"_", "8", "_", "1", "-", "1", "-", "1", "-", "2">>,
   [i \in 1..20 |-> "n"], [i \in 1..21 |-> "n"],
   [i \in 1..22 |-> IF i \in {20, 21} THEN "_" ELSE "n"],
   [i \in 1..24 |-> IF i \in {5, 22} THEN "_" ELSE IF i > 22 THEN "7" ELSE "n"]}

PublishedPorts == {1, 8765, 65535}

PublishedAddresses ==
  {IpA,
   <<"1", "9", "2", ".", "1", "6", "8", ".", "0", ".", "1", "0", "5">>,
   <<"2", "5", "5", ".", "2", "5", "5", ".", "2", "5", "5", ".", "2", "5", "5">>}

\* the service names decodeServiceName is applied to: up to three leading
\* segments, then a port segment and an address segment
NamePrefixes == {<< >>, <<"_">>, <<"P", "_">>, <<"P", "_", "c", "_">>}

PortTexts == {<< >>, <<"8">>, <<"0">>, <<"8", "x">>, <<"x">>, <<"-", "8">>}

AddressTexts ==
  {<< >>, <<"1", "-", "1", "-", "1", "-", "2">>, <<"1", "-", "1", "-", "1">>,
   <<"1", "-", "1", "-", "1", "-", "x">>, <<"1", ".", "1", "-", "1", ".", "2">>,
   <<"1", "-", "1", "-", "1", "-", "2", " ", "(", "2", ")">>}

ServiceNames ==
  {prefix \o port \o <<"_">> \o address :
     prefix \in NamePrefixes, port \in PortTexts, address \in AddressTexts}

\* the advertisements a mobile device hears: those of peer A under its encoded
\* name and under a plain name, its temporary service, and the two of this
\* device
MobileServices == {Advertisements[i] : i \in {1, 2, 3, 5, 6, 8}}

\* --------------------------------------- Serving API: lists and streams
\* fileCache of the scanner: content id -> size of the file at its localPath
FileCache == <<1, 3, 1000>>

\* the ids a request can name: those of the cache and one more
FileIds == 1..(Len(FileCache) + 1)

\* path.dirname(file.localPath) of the files, by the segments of the path
LocalDirs ==
  <<<<<<"d">>, <<"a">>>>, <<<<"d">>, <<"a">>, <<"s">>>>, <<<<"d">>, <<"a">>>>>>

\* the directories that exist on the serving machine: /, /d, the shared
\* /d/a with /d/a/s, the shared /d/b, and /d/p that is not shared
FsDirectories ==
  {<< >>, <<<<"d">>>>, <<<<"d">>, <<"a">>>>, <<<<"d">>, <<"a">>, <<"s">>>>,
   <<<<"d">>, <<"b">>>>, <<<<"d">>, <<"p">>>>}

\* scanFolder: the cache once the files of the directory are set in it
scanFolder(cache, folderPath) ==
  [id \in DOMAIN cache \cup {i \in DOMAIN FileCache : LocalDirs[i] = folderPath}
     |-> FileCache[id]]

getFileById(fileId) ==
  IF fileId \in DOMAIN fileCache THEN <<[size |-> fileCache[fileId]]>> ELSE Null

getFileSiblings(fileId) ==
  IF fileId \in DOMAIN fileCache THEN <<[currentFile |-> fileId]>> ELSE Null

\* rows of getSharedFolders(): folder f at /d/a is enabled, folder g at /d/b
\* is not
SharedFolders ==
  <<[id |-> <<"f">>, enabled |-> TRUE, path |-> <<<<"d">>, <<"a">>>>],
    [id |-> <<"g">>, enabled |-> FALSE, path |-> <<<<"d">>, <<"b">>>>]>>

\* path.join(base, ...segments): '.' is dropped and '..' takes the last
\* segment of what precedes it away
RECURSIVE path_join(_, _)
path_join(base, segments) ==
  IF segments = << >> THEN base
  ELSE LET p == Head(segments)
       IN path_join(IF p = <<".", ".">>
                    THEN (IF base = << >> THEN base
                          ELSE SubSeq(base, 1, Len(base) - 1))
                    ELSE IF p = <<".">> THEN base
                    ELSE Append(base, p),
                    Tail(segments))

\* req.query.path of the List requests
RequestedPaths ==
  {<< >>, <<"/">>, <<"/", "f">>, <<"/", "f", "/", "s">>, <<"/", "f", "/", "n">>,
   <<"/", "g">>, <<"/", "h">>, <<"/", "h", "/", "s">>, <<"/", "/">>,
   <<"/", "f", "/", "s", "/", ".", ".">>, <<"/", "f", "/", ".", ".">>,
   <<"/", "f", "/", ".", ".", "/", "p">>}

\* a reply of the Serving API: the status line, the error of a JSON error
\* body, the headers of a stream, the bytes piped (first offset and count),
\* the items of a listing, whether the handler threw after writeHead, and
\* the directory scanFolder has read for a listing
Response(status, error) ==
  [status |-> status, error |-> error, contentRange |-> << >>,
   contentLength |-> NaN, disposition |-> "", first |-> 0, count |-> 0,
   items |-> 0, threw |-> FALSE, listed |-> Null]

\* a handler that lists the folders that are not enabled as well
handleListFilesAt_AllFolders(requestedPath) ==
  LET path == Or(requestedPath, <<"/">>)
      sharedFolders == shared_folders
      pathParts == SelectSeq(split(path, "/"), LAMBDA p : p # << >>)
  IN IF path = <<"/">>
     THEN [Response(200, "") EXCEPT !.items = Len(sharedFolders)]
     ELSE IF pathParts = << >>
             \/ ~\E i \in 1..Len(sharedFolders) : sharedFolders[i].id = pathParts[1]
     THEN Response(404, "Folder not found")
     ELSE LET folder == sharedFolders[CHOOSE i \in 1..Len(sharedFolders) :
                                        sharedFolders[i].id = pathParts[1]]
              fullPath == IF Len(pathParts) > 1
                          THEN path_join(folder.path, Tail(pathParts))
                          ELSE folder.path
          IN IF fullPath \notin FsDirectories
             THEN Response(404, "Path not found")
             ELSE [Response(200, "") EXCEPT !.items = 1, !.listed = <<fullPath>>]

\* handleListFiles for a path: the number of items of the listing and the
\* directory it read, or 404
handleListFilesAt(requestedPath) ==
  LET path == Or(requestedPath, <<"/">>)
      sharedFolders == SelectSeq(shared_folders, LAMBDA f : f.enabled)
      pathParts == SelectSeq(split(path, "/"), LAMBDA p : p # << >>)
  IN IF path = <<"/">>
     THEN [Response(200, "") EXCEPT !.items = Len(sharedFolders)]
     ELSE IF pathParts = << >>
             \/ ~\E i \in 1..Len(sharedFolders) : sharedFolders[i].id = pathParts[1]
     THEN Response(404, "Folder not found")
     ELSE LET folder == sharedFolders[CHOOSE i \in 1..Len(sharedFolders) :
                                        sharedFolders[i].id = pathParts[1]]
              fullPath == IF Len(pathParts) > 1
                          THEN path_join(folder.path, Tail(pathParts))
                          ELSE folder.path
          IN IF fullPath \notin FsDirectories
             THEN Response(404, "Path not found")
             ELSE [Response(200, "") EXCEPT !.items = 1, !.listed = <<fullPath>>]

handleFileMetadata(fileId) ==
  IF getFileById(fileId) = Null
  THEN Response(404, "File not found")
  ELSE [Response(200, "") EXCEPT !.items = 1]

handleFileSiblingsOf(fileId) ==
  IF getFileSiblings(fileId) = Null
  THEN Response(404, "File not found")
  ELSE [Response(200, "") EXCEPT !.items = 1]

\* fs.createReadStream(filePath, {start, end}) throws unless both are
\* integers >= 0 with start <= end
createReadStreamThrows(start, end) ==
  \/ start = NaN \/ end = NaN
  \/ start[1] < 0 \/ end[1] < 0
  \/ start[1] > end[1]

\* the bytes the stream reads: from start to end, at most to the end of file
bytesRead(fileSize, start, end) ==
  LET last == IF end < fileSize - 1 THEN end ELSE fileSize - 1
  IN IF last < start THEN 0 ELSE last - start + 1

\* a handler that answers every Range header with the whole file
handleStream_IgnoreRange(fileId, range) ==
  IF getFileById(fileId) = Null
  THEN Response(404, "File not found")
  ELSE LET fileSize == getFileById(fileId)[1].size
       IN [Response(200, "") EXCEPT !.contentLength = <<fileSize>>,
                                    !.count = fileSize]

\* handleStream; range is Null without a Range header
handleStream(fileId, range) ==
  IF getFileById(fileId) = Null
  THEN Response(404, "File not found")
  ELSE LET fileSize == getFileById(fileId)[1].size
       IN IF range # Null /\ range[1] # << >>
          THEN LET parts == split(replaceFirst(range[1],
                                    <<<<Lit("b"), Lit("y"), Lit("t"), Lit("e"),
                                        Lit("s"), Lit("=")>>>>, << >>), "-")
                   start == parseInt10(parts[1])
                   end == IF Len(parts) >= 2 /\ parts[2] # << >>
                          THEN parseInt10(parts[2]) ELSE <<fileSize - 1>>
                   chunkSize == IF start = NaN \/ end = NaN
                                THEN NaN ELSE <<end[1] - start[1] + 1>>
                   head == [Response(206, "") EXCEPT
                              !.contentRange =
                                 <<"b", "y", "t", "e", "s", " ">> \o String(start)
                                 \o <<"-">> \o String(end) \o <<"/">>
                                 \o String(<<fileSize>>),
                              !.contentLength = chunkSize]
               IN IF createReadStreamThrows(start, end)
                  THEN [head EXCEPT !.threw = TRUE]
                  ELSE [head EXCEPT !.first = start[1],
                                    !.count = bytesRead(fileSize, start[1], end[1])]
          ELSE [Response(200, "") EXCEPT !.contentLength = <<fileSize>>,
                                         !.count = fileSize]

\* handleDownload: the same reply, sent as an attachment
handleDownload(fileId, range) ==
  LET r == handleStream(fileId, range)
  IN IF r.status = 404 THEN r ELSE [r EXCEPT !.disposition = "attachment"]

\* the Range headers of the requests: none, and bytes=<start>-<end>
StartTexts ==
  {<< >>, <<"0">>, <<"1">>, <<"2">>, <<"3">>, <<"1", "0", "0">>, <<"x">>,
   <<"5", "0", "0", "0">>}

EndTexts == {<< >>, <<"0">>, <<"1">>, <<"2">>, <<"5", "0", "0", "0">>}

RangeHeaders ==
  {Null} \cup {<<<<"b", "y", "t", "e", "s", "=">> \o a \o <<"-">> \o b>> :
                 a \in StartTexts, b \in EndTexts}

\* 'toggle-folder-enabled': UPDATE shared_folders SET enabled = NOT enabled
toggleFolderEnabled(id) ==
  /\ shared_folders' =
       [i \in 1..Len(shared_folders) |->
          IF shared_folders[i].id = id
          THEN [shared_folders[i] EXCEPT !.enabled = ~shared_folders[i].enabled]
          ELSE shared_folders[i]]
  /\ UNCHANGED <<downloadVars, discoveryVars, decoded, served, fileCache>>

\* 'remove-shared-folder': DELETE FROM shared_folders WHERE id = ?
removeSharedFolder(id) ==
  /\ shared_folders' = SelectSeq(shared_folders, LAMBDA f : f.id # id)
  /\ UNCHANGED <<downloadVars, discoveryVars, decoded, served, fileCache>>

NoRequest ==
  [route |-> "none", fileId |-> 0, path |-> << >>, range |-> Null,
   response |-> Response(0, "")]

Request(route, fileId, path, range, response) ==
  [route |-> route, fileId |-> fileId, path |-> path, range |-> range,
   response |-> response]

getFiles(path) ==
  /\ served' = Request("/api/v1/files", 0, path, Null, handleListFilesAt(path))
  /\ fileCache' = IF handleListFilesAt(path).listed # Null
                  THEN scanFolder(fileCache, handleListFilesAt(path).listed[1])
                  ELSE fileCache
  /\ UNCHANGED <<downloadVars, discoveryVars, decoded, shared_folders>>

getMetadata(fileId) ==
  /\ served' = Request("/api/v1/files/:fileId/metadata", fileId, << >>, Null,
                       handleFileMetadata(fileId))
  /\ UNCHANGED <<downloadVars, discoveryVars, decoded, shareVars>>

getSiblings(fileId) ==
  /\ served' = Request("/api/v1/files/:fileId/siblings", fileId, << >>, Null,
                       handleFileSiblingsOf(fileId))
  /\ fileCache' = IF getFileSiblings(fileId) # Null
                  THEN scanFolder(fileCache, LocalDirs[fileId])
                  ELSE fileCache
  /\ UNCHANGED <<downloadVars, discoveryVars, decoded, shared_folders>>

getStream(fileId, range) ==
  /\ served' = Request("/api/v1/stream/:fileId", fileId, << >>, range,
                       handleStream(fileId, range))
  /\ UNCHANGED <<downloadVars, discoveryVars, decoded, shareVars>>

getDownload(fileId, range) ==
  /\ served' = Request("/api/v1/download/:fileId", fileId, << >>, range,
                       handleDownload(fileId, range))
  /\ UNCHANGED <<downloadVars, discoveryVars, decoded, shareVars>>

\* ----------------------------------------------------------------- spec
\* the state after module load and before any call, nothing on disk
Boot ==
  /\ downloads = << >>
  /\ downloadQueue = << >>
  /\ activeDownloads = 0
  /\ downloadConnectionInfo = {}
  /\ transfers = << >>
  /\ tempFile = [n \in {NameOf(f) : f \in AllFiles} |-> NoFile]
  /\ finalFile = [n \in {NameOf(f) : f \in AllFiles} |-> NoFile]
  /\ nextId = 1
  /\ started = 0
  /\ sent = << >>
  /\ proc = "running"
  /\ recovering = << >>
  /\ now = 0
  /\ currentlyPlaying = NoFileId
  /\ autoDownloadQueue = << >>
  /\ fetching = << >>
  /\ played = NoPlay
  /\ discoveredDevices = << >>
  /\ devices = << >>
  /\ processedServices = {}
  /\ polling = {}
  /\ network = Network
  /\ announced = {}
  /\ mdnsLog = NoEvent
  /\ decoded = NoDecode
  /\ served = NoRequest

\* the folder table with f enabled and g not, every file of f scanned
Scanned ==
  /\ shared_folders = SharedFolders
  /\ fileCache = scanFolder(scanFolder(<< >>, LocalDirs[1]), LocalDirs[2])

Init ==
  /\ Boot
  /\ Scanned
  /\ scope = [files |-> 1..NumFiles, size |-> FileSize,
              maxDownloads |-> MaxDownloads, maxStarted |-> MaxStarted,
              window |-> FALSE, maxEvents |-> 0, followed |-> {}]
  /\ settings = defaultSettings
  /\ detector = NoCall

Next ==
  \/ \E f \in scope.files : startDownload(f)
  \/ \E id \in KnownIds : pauseDownload(id)
  \/ \E id \in KnownIds : resumeDownload(id)
  \/ \E id \in KnownIds : cancelDownload(id)
  \/ \E id \in KnownIds : retryDownload(id)
  \/ \E id \in KnownIds : deleteDownload(id)
  \/ \E x \in DOMAIN transfers : RequestOnError(x)
  \/ \E x \in DOMAIN transfers, found \in BOOLEAN : ResponseCallback(x, found)
  \/ \E x \in DOMAIN transfers, persist \in BOOLEAN : ResponseOnData(x, persist)
  \/ \E x \in DOMAIN transfers : WriteStreamOnFinish(x)
  \/ \E x \in DOMAIN transfers : WriteStreamOnError(x)
  \/ cleanup
  \/ initDownloadManager

Spec == Init /\ [][Next]_vars

\* more downloads than the cap, each of another file, requested in the order
\* of the files; the calls that stop and requeue a download and the events of
\* a transfer up to its response
InitCap ==
  /\ Boot
  /\ Scanned
  /\ scope = [files |-> 1..CapFiles, size |-> CapFileSize,
              maxDownloads |-> CapDownloads, maxStarted |-> CapStarted,
              window |-> FALSE, maxEvents |-> 0, followed |-> {}]
  /\ settings = defaultSettings
  /\ detector = NoCall

NextCap ==
  \/ \E f \in scope.files \cap {nextId} : startDownload(f)
  \/ \E id \in KnownIds : pauseDownload(id)
  \/ \E id \in KnownIds : retryDownload(id)
  \/ \E x \in DOMAIN transfers : RequestOnError(x)
  \/ \E x \in DOMAIN transfers : ResponseCallback(x, TRUE)

SpecCap == InitCap /\ [][NextCap]_vars

\* one download of a file of two chunks, paused and resumed: the calls of the
\* scenario and the events of its transfers
InitResume ==
  /\ Boot
  /\ Scanned
  /\ scope = [files |-> 1..ResFiles, size |-> ResFileSize,
              maxDownloads |-> ResDownloads, maxStarted |-> ResStarted,
              window |-> FALSE, maxEvents |-> 0, followed |-> {}]
  /\ settings = defaultSettings
  /\ detector = NoCall

NextResume ==
  \/ \E f \in scope.files : startDownload(f)
  \/ \E id \in KnownIds : pauseDownload(id)
  \/ \E id \in KnownIds : resumeDownload(id)
  \/ \E x \in DOMAIN transfers : RequestOnError(x)
  \/ \E x \in DOMAIN transfers : ResponseCallback(x, TRUE)
  \/ \E x \in DOMAIN transfers, persist \in BOOLEAN : ResponseOnData(x, persist)
  \/ \E x \in DOMAIN transfers : WriteStreamOnFinish(x)

SpecResume == InitResume /\ [][NextResume]_vars

\* downloads that complete, the clock and the scheduler, with the retention
\* setting absent or one day
InitExpiry ==
  /\ Boot
  /\ Scanned
  /\ scope = [files |-> 1..ExpFiles, size |-> ExpFileSize,
              maxDownloads |-> ExpDownloads, maxStarted |-> ExpStarted,
              maxTime |-> ExpMaxTime, window |-> FALSE, maxEvents |-> 0,
              followed |-> {}]
  /\ \E days \in {NoSetting, <<1>>} :
       settings = [defaultSettings EXCEPT !.autoDeleteDays = days]
  /\ detector = NoCall

NextExpiry ==
  \/ \E f \in scope.files : startDownload(f)
  \/ \E x \in DOMAIN transfers : ResponseCallback(x, TRUE)
  \/ \E x \in DOMAIN transfers, persist \in BOOLEAN : ResponseOnData(x, persist)
  \/ \E x \in DOMAIN transfers : WriteStreamOnFinish(x)
  \/ Tick
  \/ \E unlinkFails \in SUBSET KnownIds, deleteFails \in SUBSET KnownIds :
       runCleanup(unlinkFails, deleteFails)

SpecExpiry == InitExpiry /\ [][NextExpiry]_vars

\* ------------------------------------------------- the engine and a peer
\* a folder of the peer made of the first files of the catalogue; plays of its
\* files, replies of the peer, manual downloads and transfers of empty files,
\* which complete with the response
InitEngine ==
  /\ Boot
  /\ Scanned
  /\ scope = [files |-> 1..EngFiles, size |-> EngFileSize,
              maxDownloads |-> EngDownloads, maxStarted |-> EngStarted,
              maxFetching |-> EngFetching, maxBatches |-> EngBatches,
              window |-> FALSE, maxEvents |-> 0, followed |-> {}]
  /\ \E enabled \in BOOLEAN :
       settings = [defaultSettings EXCEPT !.autoDownloadEnabled = enabled]
  /\ \E list \in Listings(SubSeq(Catalogue, 1, EngFiles), EngFiles) :
       detector = Folder(list)

NextEngine ==
  \/ \E file \in FilesOf(detector.allFiles) : setPlayingFile(file.id)
  \/ \E fileId \in DOMAIN fetching, peer \in Peers, throwsAt \in 0..3 :
       fetchSettled(fileId, peer, throwsAt)
  \/ \E file \in FilesOf(detector.allFiles) : startDownload(file.id)
  \/ \E x \in DOMAIN transfers : ResponseCallback(x, TRUE)
  \/ \E x \in DOMAIN transfers : WriteStreamOnFinish(x)

SpecEngine == InitEngine /\ [][NextEngine]_vars

\* ----------------------------------------------- the episode detector alone
callFindNextEpisodes(currentFile, count) ==
  /\ detector' = [detector EXCEPT
                    !.call = "findNextEpisodes",
                    !.currentFile = currentFile, !.count = count,
                    !.result = findNextEpisodes(currentFile, detector.allFiles, count)]
  /\ UNCHANGED <<managerVars, proc, scope, recovering, now, settings, serviceVars, engineVars>>

callGetNextAlphabetically(currentFile, count) ==
  /\ detector' = [detector EXCEPT
                    !.call = "getNextAlphabetically",
                    !.currentFile = currentFile, !.count = count,
                    !.result = getNextAlphabetically(currentFile, detector.allFiles, count)]
  /\ UNCHANGED <<managerVars, proc, scope, recovering, now, settings, serviceVars, engineVars>>

callFindFilesToAutoDownload(currentFile) ==
  /\ detector' = [detector EXCEPT
                    !.call = "findFilesToAutoDownload",
                    !.currentFile = currentFile, !.count = 0,
                    !.result = findFilesToAutoDownload(currentFile, detector.allFiles).files]
  /\ UNCHANGED <<managerVars, proc, scope, recovering, now, settings, serviceVars, engineVars>>

InitEpisodes ==
  /\ Boot
  /\ Scanned
  /\ scope = [files |-> {}, size |-> 0, maxDownloads |-> 0, maxStarted |-> 0,
              window |-> FALSE, maxEvents |-> 0, followed |-> {}]
  /\ settings = defaultSettings
  /\ \E list \in Listings(Catalogue, MaxSiblings), backwards \in BOOLEAN :
       detector = Folder(IF backwards THEN Reverse(list) ELSE list)

NextEpisodes ==
  \/ \E currentFile \in FilesOf(detector.allFiles), count \in 0..MaxSiblings :
       callFindNextEpisodes(currentFile, count)
  \/ \E currentFile \in FilesOf(detector.allFiles), count \in 0..MaxSiblings :
       callGetNextAlphabetically(currentFile, count)
  \/ \E currentFile \in FilesOf(detector.allFiles) :
       callFindFilesToAutoDownload(currentFile)

SpecEpisodes == InitEpisodes /\ [][NextEpisodes]_vars

\* ------------------------------------------- the desktop discovery service
InitDesktopDiscovery ==
  /\ Boot
  /\ Scanned
  /\ scope = [files |-> {}, size |-> 0, maxDownloads |-> 0, maxStarted |-> 0,
              window |-> FALSE, maxEvents |-> 0, followed |-> {}]
  /\ settings = defaultSettings
  /\ detector = NoCall

NextDesktopDiscovery ==
  \/ \E service \in Services : browserOnUp(service)
  \/ \E service \in Services : browserOnDown(service)

SpecDesktopDiscovery == InitDesktopDiscovery /\ [][NextDesktopDiscovery]_vars

\* the advertisements of the pair (IpA, 8), each up at most once at a time and
\* withdrawn only while it is up: a peer that republishes under a new name
\* (updateServiceName keeps its deviceId), in every order of arrival
Republished == {Advertisements[i] : i \in 1..4}

InitRepublish ==
  /\ Boot
  /\ Scanned
  /\ scope = [files |-> {}, size |-> 0, maxDownloads |-> 0, maxStarted |-> 0,
              window |-> FALSE, maxEvents |-> 0, followed |-> Republished]
  /\ settings = defaultSettings
  /\ detector = NoCall

NextRepublish ==
  \/ \E service \in scope.followed \ announced : browserOnUp(service)
  \/ \E service \in announced : browserOnDown(service)

SpecRepublish == InitRepublish /\ [][NextRepublish]_vars

\* -------------------------------------------- the mobile discovery service
InitMobileDiscovery == InitDesktopDiscovery

NextMobileDiscovery ==
  \/ \E service \in MobileServices : zeroconfOnFound(service.name)
  \/ \E service \in MobileServices : pollResolved(service)
  \/ \E service \in MobileServices : pollMaxAttempts(service.name)
  \/ \E service \in MobileServices : zeroconfOnResolved(service)
  \/ \E service \in MobileServices : zeroconfOnRemoved(service)

SpecMobileDiscovery == InitMobileDiscovery /\ [][NextMobileDiscovery]_vars

\* ------------------------------------------------ decodeServiceName alone
InitDecode == InitDesktopDiscovery

NextDecode ==
  \E platform \in {"desktop", "mobile"}, serviceName \in ServiceNames :
    callDecodeServiceName(platform, serviceName)

SpecDecode == InitDecode /\ [][NextDecode]_vars

\* ------------------------------------------ encoded names, there and back
InitRoundTrip == InitDesktopDiscovery

NextRoundTrip ==
  \E platform \in {"desktop", "mobile"}, deviceName \in DeviceNames,
     port \in PublishedPorts, ip \in PublishedAddresses :
    publishEncoded(platform, deviceName, port, ip)

SpecRoundTrip == InitRoundTrip /\ [][NextRoundTrip]_vars

\* -------------------------------------------------- the Serving API alone
InitServing == InitDesktopDiscovery

NextServing ==
  \/ \E path \in RequestedPaths : getFiles(path)
  \/ \E fileId \in FileIds : getMetadata(fileId)
  \/ \E fileId \in FileIds : getSiblings(fileId)
  \/ \E fileId \in FileIds, range \in RangeHeaders : getStream(fileId, range)
  \/ \E fileId \in FileIds, range \in RangeHeaders : getDownload(fileId, range)

SpecServing == InitServing /\ [][NextServing]_vars

\* one file whose size the caller declares freely (the renderer passes what
\* the listing said, the engine file.size || 0): the calls that start, stop
\* and requeue a download and the events of a transfer that succeeds
DeclaredTotals == 0..(DeclFileSize + 1)

InitDeclared ==
  /\ Boot
  /\ Scanned
  /\ scope = [files |-> 1..DeclFiles, size |-> DeclFileSize,
              maxDownloads |-> DeclDownloads, maxStarted |-> DeclStarted,
              window |-> FALSE, maxEvents |-> 0, followed |-> {}]
  /\ settings = defaultSettings
  /\ detector = NoCall

NextDeclared ==
  \/ \E f \in scope.files, totalBytes \in DeclaredTotals :
       startDownloadParams(f, totalBytes)
  \/ \E id \in KnownIds : pauseDownload(id)
  \/ \E id \in KnownIds : resumeDownload(id)
  \/ \E x \in DOMAIN transfers : ResponseCallback(x, TRUE)
  \/ \E x \in DOMAIN transfers, persist \in BOOLEAN : ResponseOnData(x, persist)
  \/ \E x \in DOMAIN transfers : WriteStreamOnFinish(x)

SpecDeclared == InitDeclared /\ [][NextDeclared]_vars

\* the folders are shared and withdrawn while peers list them and ask for the
\* files: both folders enabled at first, nothing scanned yet
SharedPaths == {<<"/">>, <<"/", "f">>, <<"/", "f", "/", "s">>, <<"/", "g">>}

InitSharing ==
  /\ Boot
  /\ shared_folders = [i \in 1..Len(SharedFolders) |->
                         [SharedFolders[i] EXCEPT !.enabled = TRUE]]
  /\ fileCache = << >>
  /\ scope = [files |-> {}, size |-> 0, maxDownloads |-> 0, maxStarted |-> 0,
              window |-> FALSE, maxEvents |-> 0, followed |-> {}]
  /\ settings = defaultSettings
  /\ detector = NoCall

NextSharing ==
  \/ \E path \in SharedPaths : getFiles(path)
  \/ \E id \in {<<"f">>, <<"g">>} : toggleFolderEnabled(id)
  \/ \E id \in {<<"f">>, <<"g">>} : removeSharedFolder(id)
  \/ \E fileId \in FileIds : getMetadata(fileId)
  \/ \E fileId \in FileIds : getSiblings(fileId)
  \/ \E fileId \in FileIds : getStream(fileId, Null)
  \/ \E fileId \in FileIds : getDownload(fileId, Null)

SpecSharing == InitSharing /\ [][NextSharing]_vars

\* the main window is alive and receives every notification: downloads that
\* are removed while their transfer runs, and the events of the transfers
InitNotify ==
  /\ Boot
  /\ Scanned
  /\ scope = [files |-> 1..NotFiles, size |-> NotFileSize,
              maxDownloads |-> NotDownloads, maxStarted |-> NotStarted,
              window |-> TRUE, maxEvents |-> NotEvents, followed |-> {}]
  /\ settings = defaultSettings
  /\ detector = NoCall

NextNotify ==
  \/ \E f \in scope.files : startDownload(f)
  \/ \E id \in KnownIds : cancelDownload(id)
  \/ \E id \in KnownIds : deleteDownload(id)
  \/ \E x \in DOMAIN transfers : RequestOnError(x)
  \/ \E x \in DOMAIN transfers : ResponseCallback(x, TRUE)
  \/ \E x \in DOMAIN transfers, persist \in BOOLEAN : ResponseOnData(x, persist)
  \/ \E x \in DOMAIN transfers : WriteStreamOnFinish(x)

SpecNotify == InitNotify /\ [][NextNotify]_vars

\* ------------------------------------------------------------ properties
NameOfDownload(id) == NameOf(downloads[id].fileId)

\* number of transfers that hold a connection and whose promise is pending
InFlightCount == BagSize(BagSelect(transfers, InFlight))

\* C1: the number of downloads whose transfer is in flight never exceeds
\* MAX_CONCURRENT_DOWNLOADS, whatever the interleaving of calls and events
C1_InFlightWithinCap == InFlightCount <= MAX_CONCURRENT_DOWNLOADS

\* the download was paused with bytes in its temp file and resumed: one of its
\* transfers asked for the bytes from an offset N > 0 onward
Resumed(id) == \E y \in DOMAIN transfers : y.id = id /\ y.startByte > 0

\* C3: a download that was paused after N bytes and resumed, once completed,
\* has a final file of exactly totalBytes bytes that equals the source
C3_ResumedFileIsWhole ==
  \A id \in DOMAIN downloads :
    (Resumed(id) /\ downloads[id].status = "completed")
    => /\ Exists(finalFile[NameOfDownload(id)])
       /\ Len(finalFile[NameOfDownload(id)]) = downloads[id].totalBytes
       /\ finalFile[NameOfDownload(id)] = SourceBytes(scope.size)

\* a download waits at the head of the queue and is not the download id
Waiting(id) ==
  /\ Len(downloadQueue) > 0
  /\ Head(downloadQueue) # id
  /\ Head(downloadQueue) \in DOMAIN downloads
  /\ downloads[Head(downloadQueue)].status = "queued"

\* C4: a step in which a download leaves activeStreams (its slot is released)
\* while another download waits at the head of the queue admits that download,
\* and only that one, in the same step
C4_ReleaseAdmitsEarliest ==
  [][\A id \in activeStreams :
       (id \notin activeStreams' /\ Waiting(id))
       => /\ Head(downloadQueue) \in activeStreams'
          /\ downloadQueue' = Tail(downloadQueue)]_vars

\* C2: startDownload for a pair that has a record in queued, downloading,
\* paused or completed creates no new record
C2_StartIsIdempotent ==
  [][\A f \in scope.files :
       (/\ startDownload(f)
        /\ \E id \in DOMAIN downloads :
             /\ downloads[id].fileId = f
             /\ downloads[id].status \in {"queued", "downloading", "paused", "completed"})
       => DOMAIN downloads' = DOMAIN downloads]_vars

\* an event of transfer x is handled in this step
Event(x) ==
  \/ RequestOnError(x)
  \/ \E found \in BOOLEAN : ResponseCallback(x, found)
  \/ \E persist \in BOOLEAN : ResponseOnData(x, persist)
  \/ WriteStreamOnFinish(x)
  \/ WriteStreamOnError(x)

\* C5: an event the aborted transfer of a paused download still delivers
\* leaves the download paused and its temp file on disk
C5_PausedSurvivesLateEvents ==
  [][\A x \in DOMAIN transfers :
       (/\ Event(x)
        /\ ~x.conn
        /\ x.id \in DOMAIN downloads
        /\ downloads[x.id].status = "paused"
        /\ Exists(tempFile[NameOf(x.fileId)]))
       => /\ x.id \in DOMAIN downloads'
          /\ downloads'[x.id].status = "paused"
          /\ Exists(tempFile'[NameOf(x.fileId)])]_vars

\* C6: cancelDownload or deleteDownload of a queued, downloading or paused
\* download leaves no record, no queue entry, no activeStreams entry, no
\* transfer in flight and no temp file of it
C6_RemovalIsComplete ==
  [][\A id \in DOMAIN downloads :
       (/\ cancelDownload(id) \/ deleteDownload(id)
        /\ downloads[id].status \in {"queued", "downloading", "paused"})
       => /\ id \notin DOMAIN downloads'
          /\ id \notin Range(downloadQueue')
          /\ id \notin activeStreams'
          /\ \A x \in DOMAIN transfers' : x.id = id => ~InFlight(x)
          /\ ~Exists(tempFile'[NameOfDownload(id)])]_vars

\* the moves of the status the lifecycle allows
Lifecycle ==
  {<<"queued", "downloading">>, <<"downloading", "paused">>,
   <<"downloading", "completed">>, <<"downloading", "failed">>,
   <<"paused", "queued">>, <<"failed", "queued">>}

\* what one handler may do to a status: nothing, one move, or two moves in a
\* row (a requeued download that processQueue admits in the same call)
Moves(from, to) ==
  \/ from = to
  \/ <<from, to>> \in Lifecycle
  \/ \E via \in {"queued", "downloading", "paused", "failed"} :
       <<from, via>> \in Lifecycle /\ <<via, to>> \in Lifecycle

\* C7: the status of a record changes only along the lifecycle; completed
\* never changes
C7_StatusFollowsLifecycle ==
  [][\A id \in DOMAIN downloads \cap DOMAIN downloads' :
       Moves(downloads[id].status, downloads'[id].status)]_vars

\* x is the transfer of a download in progress
Transferring(x) ==
  /\ x.reg /\ InFlight(x)
  /\ x.id \in DOMAIN downloads
  /\ downloads[x.id].status = "downloading"

\* the failures of a transfer: transport error, reply other than 200 and 206,
\* error of the write stream
Failure(x) ==
  \/ RequestOnError(x)
  \/ ResponseCallback(x, FALSE)
  \/ WriteStreamOnError(x)

\* C8: a failure of the transfer of a download in progress is handled: the
\* download becomes failed with an error message, no other record changes
\* except by admission, and the slot is released
C8_FailureIsHandled ==
  [][\A x \in DOMAIN transfers :
       (Failure(x) /\ Transferring(x))
       => /\ proc' # "crashed"
          /\ downloads'[x.id].status = "failed"
          /\ downloads'[x.id].error # NoError
          /\ x.id \notin activeStreams'
          /\ activeDownloads' <= activeDownloads
          /\ \A id \in DOMAIN downloads \ {x.id} :
               \/ downloads'[id] = downloads[id]
               \/ downloads[id].status = "queued"]_vars

\* s is what is left of t after some of its first elements were taken
IsSuffix(s, t) ==
  /\ Len(s) <= Len(t)
  /\ s = SubSeq(t, Len(t) - Len(s) + 1, Len(t))

\* C9: retryDownload of a record that is missing or not failed changes
\* nothing; of a failed record it clears the error, sets queued and appends
\* the id to the queue, from whose head processQueue admits in the same call
\* while slots are free: the record ends queued at the tail of the queue, or
\* downloading with its transfer registered, or failed again for want of
\* connection info
C9_RetryOnlyFailed ==
  [][\A id \in KnownIds :
       retryDownload(id)
       => IF id \in DOMAIN downloads /\ downloads[id].status = "failed"
          THEN /\ IsSuffix(downloadQueue', Append(downloadQueue, id))
               /\ downloads'[id] = [downloads[id] EXCEPT
                                       !.status = downloads'[id].status,
                                       !.error = downloads'[id].error]
               /\ \/ /\ downloads'[id].status = "queued"
                     /\ downloads'[id].error = NoError
                     /\ Len(downloadQueue') > 0
                     /\ downloadQueue'[Len(downloadQueue')] = id
                  \/ /\ downloads'[id].status = "downloading"
                     /\ downloads'[id].error = NoError
                     /\ id \in activeStreams'
                  \/ /\ downloads'[id].status = "failed"
                     /\ downloads'[id].error # NoError
                     /\ id \notin downloadConnectionInfo
          ELSE UNCHANGED vars]_vars

\* download 1, admitted by the call that created it, waits at the tail of the
\* queue again: it failed and was retried while the slots were taken
C9_Witness ==
  /\ 1 \in DOMAIN downloads
  /\ downloads[1].status = "queued"
  /\ downloads[1].error = NoError
  /\ Len(downloadQueue) > 0
  /\ downloadQueue[Len(downloadQueue)] = 1

\* C10: at the start of the process, every record read as 'downloading' is
\* 'queued' in the ledger when its id is in the queue
C10_ResetBeforeQueued ==
  \A id \in DOMAIN recovering : recovering[id] = "queued"

\* the last start found a record as 'downloading' and queued it
C10_Witness == DOMAIN recovering # {}

\* C11: a start of the process does not leave a record that was queued or
\* downloading in status failed: it is admitted and its transfer is started
\* again, or it waits in the queue for a slot
C11_RecoveredAreRestarted ==
  [][initDownloadManager
     => \A id \in DOMAIN downloads :
          downloads[id].status \in {"queued", "downloading"}
          => /\ downloads'[id].status # "failed"
             /\ \/ id \in activeStreams'
                \/ id \in Range(downloadQueue')]_vars

\* transfer x completes its download in this step
Completes(x) ==
  /\ WriteStreamOnFinish(x)
  /\ x.id \in DOMAIN downloads /\ x.id \in DOMAIN downloads'
  /\ downloads[x.id].status # "completed"
  /\ downloads'[x.id].status = "completed"

\* C12: a transfer that completes leaves its record completed with its local
\* path and an expiry that denotes the completion time plus the configured
\* number of days, 10 days when the setting is absent
C12_ExpiryIsCompletionPlusDays ==
  [][\A x \in DOMAIN transfers :
       Completes(x)
       => /\ downloads'[x.id].localPath = NameOf(x.fileId)
          /\ downloads'[x.id].expiresAt # NoExpiry
          /\ InstantOf(downloads'[x.id].expiresAt)
               = now + TicksPerDay * (IF settings.autoDeleteDays = NoSetting
                                      THEN 10
                                      ELSE settings.autoDeleteDays[1])]_vars

\* a download completed under a retention of one day, after the first tick
C12_Witness ==
  \E id \in DOMAIN downloads :
    /\ downloads[id].status = "completed"
    /\ settings.autoDeleteDays = <<1>>
    /\ downloads[id].expiresAt = toISOString(now + TicksPerDay)
    /\ now > 0

\* C13: a run of the scheduler in which no deletion fails deletes every
\* completed download whose expiry is earlier than the time of the run, file
\* and record, and touches no other record
C13_RunDeletesExactlyExpired ==
  [][runCleanup({}, {})
     => \A id \in DOMAIN downloads :
          IF /\ downloads[id].status = "completed"
             /\ downloads[id].expiresAt # NoExpiry
             /\ InstantOf(downloads[id].expiresAt) < now
          THEN /\ id \notin DOMAIN downloads'
               /\ ~Exists(finalFile'[downloads[id].localPath])
          ELSE /\ id \in DOMAIN downloads'
               /\ downloads'[id] = downloads[id]]_vars

\* C14: in a run of the scheduler, the record of an expired download whose
\* file or record deletion fails remains, every other expired download of
\* the run is deleted, and the run does not throw
C14_ItemFailureDoesNotAbortRun ==
  [][\A unlinkFails \in SUBSET KnownIds, deleteFails \in SUBSET KnownIds :
       runCleanup(unlinkFails, deleteFails)
       => /\ proc' = proc
          /\ \A id \in getExpiredDownloads(downloads, now) :
               IF \/ id \in deleteFails
                  \/ /\ id \in unlinkFails
                     /\ Exists(finalFile[downloads[id].localPath])
               THEN id \in DOMAIN downloads' /\ downloads'[id] = downloads[id]
               ELSE id \notin DOMAIN downloads']_vars

\* a run has deleted download 2 and left download 1, expired as well, whose
\* deletion failed
C14_Witness ==
  /\ 1 \in getExpiredDownloads(downloads, now)
  /\ 2 \notin DOMAIN downloads
  /\ nextId > 2
  /\ ~Exists(finalFile[NameOf(2)])

\* ------------------------------------------------------------------ C15
\* C15: with auto-download enabled, a device plays Show.S01E01.mp4 from a peer
\* whose folder also holds Show.S01E02.mp4: once the peer's Serving API has
\* answered the engine, both files are downloads from the peer flagged
\* isAutoDownload (which then complete with an expiry 10 days out).
C15_PlayEnqueuesBothEpisodes ==
  [][/\ settings.autoDownloadEnabled
     /\ {Catalogue[1], Catalogue[2]} \subseteq Range(detector.allFiles)
     /\ fetchSettled(Catalogue[1].id, "ServingApi", 0)
     => \A file \in {Catalogue[1], Catalogue[2]} :
          \E id \in DOMAIN downloads' :
            /\ downloads'[id].fileId = file.id
            /\ downloads'[id].isAutoDownload]_vars

C17_RepeatedPlayIsNoOp ==
  [][\A file \in FilesOf(detector.allFiles) :
       /\ settings.autoDownloadEnabled
       /\ currentlyPlaying = file.id
       /\ setPlayingFile(file.id)
       => UNCHANGED <<managerVars, currentlyPlaying, autoDownloadQueue, fetching>>]_vars

\* the play event of the trigger file has come again after its batch was made
C17_Witness ==
  /\ played.result = "same"
  /\ played.fileId = currentlyPlaying
  /\ Len(autoDownloadQueue) = 1
  /\ autoDownloadQueue[1].playingFileId = currentlyPlaying
  /\ fetching = << >>

C19_SelectionRule ==
  detector.call = "findFilesToAutoDownload" =>
    LET currentFile == detector.currentFile
        selected == detector.result
        episodes == findNextEpisodes(currentFile, detector.allFiles, Len(detector.allFiles))
        successors == getNextAlphabetically(currentFile, detector.allFiles,
                                            Len(detector.allFiles))
    IN /\ Len(selected) >= 1 /\ selected[1] = currentFile
       /\ \A i \in 2..Len(selected) : selected[i].type = "file"
       /\ \A i, j \in 1..Len(selected) : i # j => selected[i].id # selected[j].id
       /\ Len(episodes) >= 2 => Tail(selected) = slice(episodes, 0, 2)
       /\ Len(episodes) = 0 => Tail(selected) = slice(successors, 0, 2)
       /\ Len(episodes) = 1 =>
            /\ Len(selected) \in 2..3
            /\ selected[2] = episodes[1]
            /\ \A i \in 3..Len(selected) : selected[i] \in Range(successors)
            /\ Len(selected) < 3 => Range(successors) \subseteq Range(selected)

\* ------------------------------------------------------------------ C20
\* the show each entry of the catalogue belongs to
ShowOfEntry(id) == <<"Show", "Show", "Show", "Other", "Zed", "Show", "Alpha">>[id]

\* b is a later episode than a
LaterEpisode(a, b) ==
  \/ b.season = a.season /\ b.episode > a.episode
  \/ b.season > a.season

\* C20: findNextEpisodes returns only siblings whose show key equals the
\* playing file's and whose (season, episode) is strictly greater, in ascending
\* (season, episode) order, the first N of them; in a folder that mixes two
\* shows it returns no file of the other show.
C20_NextEpisodesOfTheShow ==
  detector.call = "findNextEpisodes" =>
    LET currentFile == detector.currentFile
        returned == detector.result
        info(f) == parseEpisodeInfo(f.name)
        key(f) == normalizeShowName(info(f)[1].showName)
        next == {f \in FilesOf(detector.allFiles) :
                   /\ f.id # currentFile.id
                   /\ info(currentFile) # NoInfo /\ info(f) # NoInfo
                   /\ key(f) = key(currentFile)
                   /\ LaterEpisode(info(currentFile)[1], info(f)[1])}
    IN /\ Range(returned) \subseteq next
       /\ Len(returned) = IF Cardinality(next) < detector.count THEN Cardinality(next)
                          ELSE detector.count
       /\ Cardinality(Range(returned)) = Len(returned)
       /\ \A i, j \in 1..Len(returned) :
            i < j => LaterEpisode(info(returned[i])[1], info(returned[j])[1])
       /\ \A f \in next \ Range(returned), g \in Range(returned) :
            ~LaterEpisode(info(f)[1], info(g)[1])
       /\ \A f \in Range(returned) : ShowOfEntry(f.id) = ShowOfEntry(currentFile.id)

\* two later episodes of the show returned from a folder listed backwards
\* that also holds a later episode of another show
C20_Witness ==
  /\ detector.call = "findNextEpisodes"
  /\ detector.currentFile = Catalogue[1]
  /\ detector.result = <<Catalogue[2], Catalogue[3]>>
  /\ Catalogue[4] \in Range(detector.allFiles)
  /\ detector.allFiles[1].id > detector.allFiles[2].id

\* ------------------------------------------------------------------ C21
SamePair(a, b) == a.ip = b.ip /\ a.port = b.port

IsTemporary(service) ==
  startsWith(service.name, <<"_", "t", "e", "m", "p", "_">>) \/ service.txt.temp

\* C21: an advertisement that carries this device's id, or that resolves to
\* this device's address, leaves the desktop device table as it is, and the
\* table never holds an entry of this device.
C21_OwnAdvertisementIsIgnored ==
  /\ [](\A i \in 1..Len(discoveredDevices) :
          /\ discoveredDevices[i].id # OurDeviceId
          /\ discoveredDevices[i].ip # OurLocalIp)
  /\ [][\A service \in Services :
          /\ browserOnUp(service)
          /\ \/ service.txt.deviceId = OurDeviceId
             \/ resolve(service).ip = OurLocalIp
          => UNCHANGED discoveredDevices]_vars

\* this device's own advertisement has come, by id or by address, while the
\* table holds a peer
C21_Witness ==
  /\ mdnsLog.event = "up"
  /\ mdnsLog.message \in {"Skipping our own service (matched by deviceId)",
                          "Skipping our own service (matched by IP)"}
  /\ mdnsLog.service.txt.deviceId # OurDeviceId
  /\ Len(discoveredDevices) = 2

\* ------------------------------------------------------------------ C22
NoTwoEntriesForOnePair(list) ==
  \A i, j \in 1..Len(list) : i # j => ~SamePair(list[i], list[j])

\* C22: the desktop device table never holds two entries with the same
\* (address, port) pair.
C22_DesktopTableHasOneEntryPerPair == NoTwoEntriesForOnePair(discoveredDevices)

\* an advertisement of another id for a pair the table holds has been skipped
C22_Witness ==
  /\ mdnsLog.event = "up"
  /\ mdnsLog.message = "Skipping duplicate device"
  /\ \E i \in 1..Len(discoveredDevices) :
       /\ SamePair(discoveredDevices[i], resolve(mdnsLog.service))
       /\ discoveredDevices[i].id # mdnsLog.service.txt.deviceId

\* ------------------------------------------------------------------ C23
\* C23: the mobile device list never holds two entries with the same
\* (address, port) pair.
C23_MobileListHasOneEntryPerPair == NoTwoEntriesForOnePair(devices)

\* ------------------------------------------------------------------ C24
\* a raw / encoded fallback name: a leading '_', or the encoded tail
\* _<port>_<a>-<b>-<c>-<d>
IsFallbackName(name) ==
  \/ name # << >> /\ name[1] = "_"
  \/ match(name, EncodedSuffix).ok

\* C24: when an advertisement arrives for an (address, port) pair the desktop
\* table holds, and exactly one of the two display names is not a fallback
\* name, the entry of the pair afterwards carries the name that is not a
\* fallback, whichever of the two came first.
C24_ProperNameSurvives ==
  [][\A service \in Services :
       /\ browserOnUp(service)
       /\ service.txt.deviceId # OurDeviceId
       /\ ~IsTemporary(service)
       /\ resolve(service).ip # OurLocalIp
       /\ \E i \in 1..Len(discoveredDevices) :
            /\ SamePair(discoveredDevices[i], resolve(service))
            /\ IsFallbackName(discoveredDevices[i].name)
               # IsFallbackName(resolve(service).name)
       => /\ \E j \in 1..Len(discoveredDevices') :
               SamePair(discoveredDevices'[j], resolve(service))
          /\ \A j \in 1..Len(discoveredDevices') :
               SamePair(discoveredDevices'[j], resolve(service))
               => ~IsFallbackName(discoveredDevices'[j].name)]_vars

\* the proper name has come second and has replaced the fallback name
C24_Witness ==
  /\ mdnsLog.event = "up"
  /\ mdnsLog.message = "Discovered device"
  /\ mdnsLog.service.txt.deviceId = DeviceB
  /\ \E i \in 1..Len(discoveredDevices) :
       /\ discoveredDevices[i].id = DeviceB
       /\ discoveredDevices[i].name = <<"Q">>
       /\ discoveredDevices[i].ip = IpB
  /\ ~\E i \in 1..Len(discoveredDevices) : discoveredDevices[i].id = <<"_", "x">>
  /\ Len(discoveredDevices) = 2

\* ------------------------------------------------------------------ C25
AllDigits(text) == text # << >> /\ \A i \in 1..Len(text) : text[i] \in Digit

WellFormedPort(segment) ==
  AllDigits(segment) /\ parseInt(segment) \in 1..65535

\* four decimal octets, written with '-' (as encodeServiceName writes them)
\* or with '.'
WellFormedAddress(segment) ==
  LET octets == split([i \in 1..Len(segment) |->
                         IF segment[i] = "-" THEN "." ELSE segment[i]], ".")
  IN /\ Len(octets) = 4
     /\ \A i \in 1..4 : AllDigits(octets[i]) /\ parseInt(octets[i]) <= 255

TailIsWellFormed(serviceName) ==
  LET parts == split(serviceName, "_")
  IN /\ Len(parts) >= 3
     /\ WellFormedPort(parts[Len(parts) - 1])
     /\ WellFormedAddress(parts[Len(parts)])

\* C25: decodeServiceName yields an address and a port if and only if the
\* last two '_'-delimited segments of the name are a well-formed port number
\* and a dotted-decimal address.
C25_DecodedIffTailIsWellFormed ==
  decoded.platform # "none"
  => (decoded.result # Null <=> TailIsWellFormed(decoded.serviceName))

\* ------------------------------------------------------------------ C26
\* C26: a 'removed' event for a peer that has an entry in the mobile device
\* list takes that entry out of the list.
C26_GoodbyeRemovesTheEntry ==
  [][\A service \in MobileServices :
       /\ zeroconfOnRemoved(service)
       /\ \E i \in 1..Len(devices) :
            devices[i].id = Or(service.txt.deviceId, service.name)
       => ~\E i \in 1..Len(devices') :
             devices'[i].id = Or(service.txt.deviceId, service.name)]_vars

\* ------------------------------------------------------------------ C27
StreamRoutes == {"/api/v1/stream/:fileId", "/api/v1/download/:fileId"}

\* the header Range: bytes=N-
BytesFrom(N) == <<<<"b", "y", "t", "e", "s", "=">> \o digitsOf(N) \o <<"-">>>>

\* C27: for a file of S bytes, Stream and Download answer Range: bytes=N-
\* (0 <= N < S) with 206, the S-N bytes from offset N and Content-Range
\* "bytes N-(S-1)/S", and a request without Range with 200 and all S bytes.
C27_OpenRangeIsServed ==
  served.route \in StreamRoutes /\ served.fileId \in DOMAIN FileCache
  => LET S == FileCache[served.fileId]
         reply == served.response
     IN /\ served.range = Null
           => /\ reply.status = 200
              /\ reply.first = 0 /\ reply.count = S
              /\ ~reply.threw
        /\ \A N \in 0..(S - 1) :
             served.range = BytesFrom(N)
             => /\ reply.status = 206
                /\ reply.first = N /\ reply.count = S - N
                /\ reply.contentLength = <<S - N>>
                /\ reply.contentRange =
                     <<"b", "y", "t", "e", "s", " ">> \o digitsOf(N) \o <<"-">>
                     \o digitsOf(S - 1) \o <<"/">> \o digitsOf(S)
                /\ ~reply.threw

\* bytes=100- of the file of 1000 bytes has been answered with 900 bytes
C27_Witness ==
  /\ served.route = "/api/v1/download/:fileId"
  /\ served.fileId \in DOMAIN FileCache /\ FileCache[served.fileId] = 1000
  /\ served.range = BytesFrom(100)
  /\ served.response.status = 206
  /\ served.response.count = 900

\* ------------------------------------------------------------------ C28
\* the segments of a path that names something, and whether it names an
\* enabled shared folder and a directory in it
PathSegments(path) == SelectSeq(split(path, "/"), LAMBDA p : p # << >>)

NamesNothingShared(path) ==
  /\ PathSegments(path) # << >>
  /\ \A i \in 1..Len(shared_folders) :
       (shared_folders[i].id = PathSegments(path)[1] /\ shared_folders[i].enabled)
       => path_join(shared_folders[i].path, Tail(PathSegments(path)))
          \notin FsDirectories

\* C28: a List request that names an unknown or disabled shared folder or a
\* sub-path that does not exist, and a Metadata, Siblings, Stream or Download
\* request that names an unknown content id, is answered 404 with an error
\* body and no content.
C28_UnknownTargetsAreNotFound ==
  /\ served.route = "/api/v1/files" /\ NamesNothingShared(served.path)
     => /\ served.response.status = 404
        /\ served.response.error # ""
        /\ served.response.items = 0 /\ served.response.count = 0
  /\ served.route \in StreamRoutes \cup {"/api/v1/files/:fileId/metadata",
                                          "/api/v1/files/:fileId/siblings"}
     /\ served.fileId \notin DOMAIN FileCache
     => /\ served.response.status = 404
        /\ served.response.error # ""
        /\ served.response.items = 0 /\ served.response.count = 0

\* the folder that is shared but not enabled has been asked for
C28_Witness ==
  /\ served.route = "/api/v1/files"
  /\ served.path = <<"/", "g">>
  /\ served.response.status = 404
  /\ served.response.error = "Folder not found"

\* ------------------------------------------------------------------ C29
\* a header bytes=<start>-<end> that is malformed or cannot be satisfied for
\* a file of S bytes: the start is not a number (the suffix form has none),
\* lies beyond the last byte, or the end lies before it
Unsatisfiable(header, S) ==
  \E a \in StartTexts, b \in EndTexts :
    /\ header = <<<<"b", "y", "t", "e", "s", "=">> \o a \o <<"-">> \o b>>
    /\ \/ ~AllDigits(a)
       \/ parseInt(a) > S - 1
       \/ AllDigits(b) /\ parseInt(b) < parseInt(a)

\* C29: Stream and Download answer a Range header that is malformed or cannot
\* be satisfied with an error response: no 206, no exception in the handler.
C29_BadRangeIsRefused ==
  /\ served.route \in StreamRoutes
  /\ served.fileId \in DOMAIN FileCache
  /\ Unsatisfiable(served.range, FileCache[served.fileId])
  => /\ served.response.status >= 400
     /\ ~served.response.threw

\* ------------------------------------------------------------------ C30
\* C30: a record of the download ledger has a local path if and only if its
\* status is completed.
C30_LocalPathIffCompleted ==
  \A id \in DOMAIN downloads :
    downloads[id].localPath # NoPath <=> downloads[id].status = "completed"

\* ------------------------------------------------------------------ C31
\* C31: every record of the ledger has downloadedBytes <= totalBytes, at each
\* progress update and after completion, across pause, resume and retry.
C31_DownloadedWithinTotal ==
  \A id \in DOMAIN downloads :
    downloads[id].downloadedBytes <= downloads[id].totalBytes

\* ------------------------------------------------------------------ C32
\* C32: between handlers activeDownloads equals the number of transfers in
\* flight and is never negative: one increment per admission, one decrement
\* per release.
C32_CounterMatchesTransfers ==
  /\ activeDownloads >= 0
  /\ activeDownloads = InFlightCount

\* ------------------------------------------------------------------ C33
\* the transfer has its write stream open on the temp file of its name and
\* its response still delivers chunks that the pipe appends to it
WritesTemp(x) ==
  /\ x.phase = "receiving" /\ x.conn /\ ~BodyDone(x)
  /\ x.ws = "open" /\ x.wpath = "temp"

\* C33: at no time do two transfers write to the same temp file, be they of
\* two downloads of one file name or two transfers of one download.
C33_OneWriterPerTempFile ==
  \A x, y \in DOMAIN transfers :
    (/\ WritesTemp(x) /\ WritesTemp(y)
     /\ NameOf(x.fileId) = NameOf(y.fileId))
    => x = y /\ transfers[x] = 1

\* ------------------------------------------------------------------ C34
\* C34: a step marks a record completed only when the temp file renamed to
\* the final path holds all totalBytes bytes of the source, and never by a
\* transfer that pauseDownload, cancelDownload or cleanup aborted.
C34_CompletedOnlyWhenWhole ==
  [][\A x \in DOMAIN transfers :
       (/\ WriteStreamOnFinish(x)
        /\ x.id \in DOMAIN downloads /\ x.id \in DOMAIN downloads'
        /\ downloads[x.id].status # "completed"
        /\ downloads'[x.id].status = "completed")
       => /\ x.conn
          /\ tempFile[NameOf(x.fileId)] = SourceBytes(downloads[x.id].totalBytes)
          /\ finalFile'[NameOf(x.fileId)] = SourceBytes(downloads[x.id].totalBytes)]_vars

\* ------------------------------------------------------------------ C35
\* C35: between handlers a download has an entry in activeStreams if and
\* only if its record exists with status downloading.
C35_ActiveStreamsIffDownloading ==
  \A id \in KnownIds :
    id \in activeStreams
    <=> (id \in DOMAIN downloads /\ downloads[id].status = "downloading")

\* ------------------------------------------------------------------ C36
\* the notifications that close an id, and those that may not follow them
Closing == {"download-cancelled", "download-deleted"}

Further ==
  {"download-started", "download-progress", "download-failed", "download-completed"}

\* C36: once download-cancelled or download-deleted was sent for an id, no
\* started, progress, failed or completed notification is sent for that id.
C36_NothingAfterRemoval ==
  \A i, j \in 1..Len(sent) :
    (i < j /\ sent[i][1] \in Closing /\ sent[i][2] = sent[j][2])
    => sent[j][1] \notin Further

\* ------------------------------------------------------------------ C37
\* the advertisement is one the desktop handler is meant to list: not this
\* device's own (by id or by address) and not a temporary one
IsPeer(service) ==
  /\ service.txt.deviceId # OurDeviceId
  /\ resolve(service).ip # OurLocalIp
  /\ ~IsTemporary(service)

\* C37: while some advertisement of a peer for an (address, port) pair is
\* announced and not withdrawn, the desktop device table holds an entry for
\* that pair, whatever the order of the announcements and goodbyes of the
\* other advertisements of the pair.
C37_AnnouncedPairIsListed ==
  \A service \in announced :
    IsPeer(service)
    => \E i \in 1..Len(discoveredDevices) :
         SamePair(discoveredDevices[i], resolve(service))

\* ------------------------------------------------------------------ C38
\* the directory is the root or lies below it
Inside(root, directory) ==
  /\ Len(root) <= Len(directory)
  /\ SubSeq(directory, 1, Len(root)) = root

\* C38: every directory a List request makes the server read lies inside the
\* root path of the enabled shared folder its first segment names, also for
\* a path with '..' segments.
C38_ListingStaysInsideTheFolder ==
  (served.route = "/api/v1/files" /\ served.response.listed # Null)
  => \E i \in 1..Len(shared_folders) :
       /\ shared_folders[i].id = PathSegments(served.path)[1]
       /\ shared_folders[i].enabled
       /\ Inside(shared_folders[i].path, served.response.listed[1])

\* ------------------------------------------------------------------ C39
\* the file of the content id lies under no folder that is shared and enabled
Withdrawn(fileId) ==
  /\ fileId \in DOMAIN FileCache
  /\ \A i \in 1..Len(shared_folders) :
       shared_folders[i].enabled
       => ~Inside(shared_folders[i].path, LocalDirs[fileId])

\* C39: once the shared folder of a file is disabled or removed, Metadata,
\* Siblings, Stream and Download requests for its content id are answered
\* 404, also for an id that an earlier listing handed out.
C39_WithdrawnFilesAreNotFound ==
  [][\A fileId \in FileIds :
       (/\ \/ getMetadata(fileId) \/ getSiblings(fileId)
           \/ getStream(fileId, Null) \/ getDownload(fileId, Null)
        /\ Withdrawn(fileId))
       => served'.response.status = 404]_vars

\* ------------------------------------------------------------------ C40
\* C40: decodeServiceName applied to encodeServiceName(name, port, ip), for a
\* device name with or without underscores, a port in 1..65535 and a
\* dotted-decimal address, returns the port, the address and the first 20
\* characters of the name.
C40_DecodeInvertsEncode ==
  \A deviceName \in DeviceNames, port \in PublishedPorts, ip \in PublishedAddresses :
    decoded.serviceName = encodeServiceName(deviceName, port, ip)
    => decoded.result =
         <<[name |-> SubSeq(deviceName, 1,
                            IF Len(deviceName) > 20 THEN 20 ELSE Len(deviceName)),
            port |-> port, ip |-> ip]>>

\* a name of more than 20 characters with an underscore before the cut and
\* one after it has been published at the highest port and decoded on the
\* mobile side
C40_Witness ==
  /\ decoded.platform = "mobile"
  /\ decoded.result # Null
  /\ decoded.result[1].port = 65535
  /\ Len(decoded.result[1].name) = 20
  /\ decoded.result[1].name[5] = "_" /\ decoded.result[1].name[20] = "n"
  /\ Len(split(decoded.serviceName, "_")) = 4

====
